---- MODULE Spec2Model ----
(***************************************************************************)
(* The iframe rewriting reverse proxy of src/worker/proxy.js: the request   *)
(* handler (preflight, validation, upstream fetch, header sanitizing,      *)
(* content dispatch, error mapping) and the text rewriters it calls        *)
(* (proxyUrl, rewriteHtml, rewriteCss).                                    *)
(*                                                                         *)
(* A JavaScript string is a sequence of one-character strings, so that     *)
(* startsWith, includes, toLowerCase, split, the regular expressions and   *)
(* encodeURIComponent are computed character by character.  The value      *)
(* Null stands for JavaScript null/undefined.                              *)
(***************************************************************************)
EXTENDS Integers, Sequences, FiniteSets, TLC

VARIABLES
  req,        \* req[r]: the inbound request handled in slot r
  pc,         \* pc[r]: idle | fetching | reading | done
  fetches,    \* fetches[r]: the upstream fetch calls issued for the request
  upstream,   \* upstream[r]: the upstream response the fetch resolved with
  baseUrl,    \* baseUrl[r]: the handler's local baseUrl (proxy.js:30)
  newHeaders, \* newHeaders[r]: the handler's local newHeaders (proxy.js:42)
  branch,     \* branch[r]: the dispatch branch taken: none | html | css | passthrough
  thrown,     \* thrown[r]: messages of the exceptions raised inside the try block
  responses,  \* responses[r]: the responses the handler returned for the request
  faults,     \* faults[r]: exceptions that left the handler uncaught
  input,      \* the rewriter harness: the text and base origin given to a rewriter
  output,     \* the rewriter harness: which rewriter ran and what it returned
  isOn,            \* TVController.isOn
  isTransitioning, \* TVController.isTransitioning
  currentChannel,  \* TVController.currentChannel
  channelKnob,     \* TVController.channelKnob, the KnobControl of the channel knob
  previewFrame,    \* the src of the preview iframe
  running,         \* the TV operations suspended at an await, oldest first
  startup,         \* whether RetroTVApp.setup's 500 ms auto power-on timer is pending
  press,           \* what the latest press of the power button or Space key found
  staticEffect,    \* TVController.staticEffect and the canvas it draws on
  knob             \* the knob harness: a KnobControl, the method that ran last on it
                   \* and the onChange calls that method made

vars == <<req, pc, fetches, upstream, baseUrl, newHeaders, branch, thrown,
          responses, faults, input, output, isOn, isTransitioning,
          currentChannel, channelKnob, previewFrame, running, startup, press,
          staticEffect, knob>>

handlerVars == <<req, pc, fetches, upstream, baseUrl, newHeaders, branch, thrown,
                 responses, faults>>

rewriterVars == <<input, output>>

tvVars == <<isOn, isTransitioning, currentChannel, channelKnob, previewFrame,
            running, startup, press, staticEffect>>

knobVars == <<knob>>

(***************************************************************************)
(* Strings                                                                 *)
(***************************************************************************)
Null == <<"null">>

Upper == <<"A", "B", "C", "D", "E", "F", "G", "H", "I", "J", "K", "L", "M", "N", "O", "P", "Q", "R", "S", "T", "U", "V", "W", "X", "Y", "Z">>

Lower == <<"a", "b", "c", "d", "e", "f", "g", "h", "i", "j", "k", "l", "m", "n", "o", "p", "q", "r", "s", "t", "u", "v", "w", "x", "y", "z">>

Digits == {"0", "1", "2", "3", "4", "5", "6", "7", "8", "9"}

Letters == {Upper[i] : i \in 1..Len(Upper)} \cup {Lower[i] : i \in 1..Len(Lower)}

Min(S) == CHOOSE x \in S : \A y \in S : x <= y

\* The lower-case letter of each upper-case letter, and the reverse.
LowerOf == [c \in {Upper[i] : i \in 1..Len(Upper)} |->
              Lower[CHOOSE i \in 1..Len(Upper) : Upper[i] = c]]

UpperOf == [c \in {Lower[i] : i \in 1..Len(Lower)} |->
              Upper[CHOOSE i \in 1..Len(Lower) : Lower[i] = c]]

toLowerCaseChar(c) == IF c \in DOMAIN LowerOf THEN LowerOf[c] ELSE c

toUpperCaseChar(c) == IF c \in DOMAIN UpperOf THEN UpperOf[c] ELSE c

toLowerCase(s) == [i \in 1..Len(s) |-> toLowerCaseChar(s[i])]

startsWith(s, p) == Len(s) >= Len(p) /\ SubSeq(s, 1, Len(p)) = p

includes(s, p) == \E i \in 1..(Len(s) - Len(p) + 1) : SubSeq(s, i, i + Len(p) - 1) = p

indexOf(s, p) == Min({i \in 1..(Len(s) - Len(p) + 1) : SubSeq(s, i, i + Len(p) - 1) = p})

falsy_NullOnly(v) == v = Null

\* JavaScript truthiness of a string-or-null value: null and "" are falsy.
falsy(v) == v = Null \/ v = <<>>

\* Number of consecutive characters of s, from position i on, that are not in Stop.
RunLen(s, i, Stop) ==
  LET ends == {j \in i..Len(s) : s[j] \in Stop}
  IN IF ends = {} THEN Len(s) + 1 - i ELSE Min(ends) - i

\* Number of leading characters of s that are in Keep.
LeadLen(s, Keep) ==
  LET others == {j \in 1..Len(s) : s[j] \notin Keep}
  IN IF others = {} THEN Len(s) ELSE Min(others) - 1

Max(S) == CHOOSE x \in S : \A y \in S : x >= y

Spaces == {" ", "\n", "\t"}

trimStart(s) == SubSeq(s, LeadLen(s, Spaces) + 1, Len(s))

trimEnd(s) ==
  LET others == {j \in 1..Len(s) : s[j] \notin Spaces}
  IN IF others = {} THEN <<>> ELSE SubSeq(s, 1, Max(others))

trim(s) == trimEnd(trimStart(s))

\* s.split(c) for a one-character separator: the sequence of parts.
RECURSIVE split(_, _)
split(s, c) ==
  LET n == RunLen(s, 1, {c})
  IN IF n = Len(s) THEN <<s>>
     ELSE <<SubSeq(s, 1, n)>> \o split(SubSeq(s, n + 2, Len(s)), c)

\* s.split(/\s+/): the parts between runs of white space.
RECURSIVE splitSpaces(_)
splitSpaces(s) ==
  LET n == RunLen(s, 1, Spaces)
  IN IF n = Len(s) THEN <<s>>
     ELSE <<SubSeq(s, 1, n)>> \o splitSpaces(trimStart(SubSeq(s, n + 1, Len(s))))

\* The concatenation of a sequence of strings.
RECURSIVE concat(_)
concat(parts) ==
  IF Len(parts) = 0 THEN <<>>
  ELSE IF Len(parts) = 1 THEN parts[1]
  ELSE concat(SubSeq(parts, 1, Len(parts) \div 2))
       \o concat(SubSeq(parts, Len(parts) \div 2 + 1, Len(parts)))

\* parts.join(sep)
join(parts, sep) ==
  concat([i \in 1..Len(parts) |-> IF i = 1 THEN parts[i] ELSE sep \o parts[i]])

(***************************************************************************)
(* encodeURIComponent and the decoding done by URLSearchParams             *)
(***************************************************************************)
\* The characters encodeURIComponent leaves alone besides letters and digits.
UnreservedMarks == {"-", "_", ".", "!", "~", "*", "'", "(", ")"}

\* The percent-encoding of the other ASCII characters the model's texts use.
Escapes == <<
  <<" ", <<"%", "2", "0">>>>, <<"\"", <<"%", "2", "2">>>>, <<"#", <<"%", "2", "3">>>>, <<"%", <<"%", "2", "5">>>>,
  <<"&", <<"%", "2", "6">>>>, <<"+", <<"%", "2", "B">>>>, <<",", <<"%", "2", "C">>>>, <<"/", <<"%", "2", "F">>>>,
  <<":", <<"%", "3", "A">>>>, <<";", <<"%", "3", "B">>>>, <<"<", <<"%", "3", "C">>>>, <<"=", <<"%", "3", "D">>>>,
  <<">", <<"%", "3", "E">>>>, <<"?", <<"%", "3", "F">>>>, <<"@", <<"%", "4", "0">>>>, <<"{", <<"%", "7", "B">>>>,
  <<"}", <<"%", "7", "D">>>>, <<"\n", <<"%", "0", "A">>>>, <<"\t", <<"%", "0", "9">>>> >>

encodeChar(c) ==
  IF c \in Letters \cup Digits \cup UnreservedMarks THEN <<c>>
  ELSE Escapes[CHOOSE i \in 1..Len(Escapes) : Escapes[i][1] = c][2]

encodeURIComponent(s) == concat([i \in 1..Len(s) |-> encodeChar(s[i])])

\* Whether a %XX escape (either hex case) of the table starts at position i of s.
escapeAt(s, i) ==
  /\ i >= 1
  /\ i + 2 <= Len(s)
  /\ s[i] = "%"
  /\ \E e \in 1..Len(Escapes) :
       Escapes[e][2] = <<"%", toUpperCaseChar(s[i + 1]), toUpperCaseChar(s[i + 2])>>

unescapeAt(s, i) ==
  Escapes[CHOOSE e \in 1..Len(Escapes) :
            Escapes[e][2] = <<"%", toUpperCaseChar(s[i + 1]), toUpperCaseChar(s[i + 2])>>][1]

\* Form decoding of one name or value: "+" is a space, %XX is the escaped
\* character, any other "%" stays.  The two characters after the "%" of an escape
\* are hex digits, so escapes never overlap.
formDecode(s) ==
  concat([i \in 1..Len(s) |->
            IF escapeAt(s, i) THEN <<unescapeAt(s, i)>>
            ELSE IF escapeAt(s, i - 1) \/ escapeAt(s, i - 2) THEN <<>>
            ELSE IF s[i] = "+" THEN <<" ">>
            ELSE <<s[i]>>])

\* url.searchParams.get(name): the decoded value of the first name=value pair of
\* the query string whose decoded name is name, or null.
searchParamsGet(query, name) ==
  LET pairs == SelectSeq(split(query, "&"), LAMBDA p : p # <<>>)
      nameOf(p) == formDecode(SubSeq(p, 1, RunLen(p, 1, {"="})))
      valueOf(p) == formDecode(SubSeq(p, RunLen(p, 1, {"="}) + 2, Len(p)))
      hits == {i \in 1..Len(pairs) : nameOf(pairs[i]) = name}
  IN IF hits = {} THEN Null ELSE valueOf(pairs[Min(hits)])

(***************************************************************************)
(* Headers objects.  A Headers object is a sequence of <<name, value>>     *)
(* entries whose names are lower-cased, as the runtime stores them.  The   *)
(* runtime iterates a Headers object sorted by name; the model keeps the   *)
(* order of first appearance, which get, has and set do not observe.       *)
(***************************************************************************)
SetCookie == <<"s", "e", "t", "-", "c", "o", "o", "k", "i", "e">>

\* The Headers object the runtime builds from header lines or from a plain object.
Headers(lines) == [i \in 1..Len(lines) |-> <<toLowerCase(lines[i][1]), lines[i][2]>>]

HeadersNames(h) == {h[i][1] : i \in 1..Len(h)}

\* headers.get(name): every value of the name, joined by ", ", or null.
HeadersGet(h, name) ==
  LET k == toLowerCase(name)
      mine == SelectSeq(h, LAMBDA e : e[1] = k)
  IN IF mine = <<>> THEN Null
     ELSE join([i \in 1..Len(mine) |-> mine[i][2]], <<",", " ">>)

\* The [key, value] pairs a for-of loop over a Headers object sees: one pair per
\* name with the values combined, except Set-Cookie, which yields one pair each.
RECURSIVE HeadersEntries(_, _)
HeadersEntries(h, i) ==
  IF i > Len(h) THEN <<>>
  ELSE IF h[i][1] = SetCookie THEN <<h[i]>> \o HeadersEntries(h, i + 1)
  ELSE IF \E j \in 1..(i - 1) : h[j][1] = h[i][1] THEN HeadersEntries(h, i + 1)
  ELSE << <<h[i][1], HeadersGet(h, h[i][1])>> >> \o HeadersEntries(h, i + 1)

\* headers.set(name, value): the first entry of the name takes the value and the
\* other entries of the name are removed; a new name is appended.
HeadersSet(h, name, value) ==
  LET k == toLowerCase(name)
      idx == {i \in 1..Len(h) : h[i][1] = k}
  IN IF idx = {} THEN Append(h, <<k, value>>)
     ELSE SubSeq(h, 1, Min(idx) - 1) \o << <<k, value>> >>
          \o SelectSeq(SubSeq(h, Min(idx) + 1, Len(h)), LAMBDA e : e[1] # k)

AccessControlAllowOrigin == <<"A", "c", "c", "e", "s", "s", "-", "C", "o", "n", "t", "r", "o", "l", "-", "A", "l", "l", "o", "w", "-", "O", "r", "i", "g", "i", "n">>

corsHeaders ==
  Headers(<< <<AccessControlAllowOrigin, <<"*">>>>,
             <<<<"A", "c", "c", "e", "s", "s", "-", "C", "o", "n", "t", "r", "o", "l", "-", "A", "l", "l", "o", "w", "-", "M", "e", "t", "h", "o", "d", "s">>, <<"G", "E", "T", ",", " ", "O", "P", "T", "I", "O", "N", "S">>>>,
             <<<<"A", "c", "c", "e", "s", "s", "-", "C", "o", "n", "t", "r", "o", "l", "-", "A", "l", "l", "o", "w", "-", "H", "e", "a", "d", "e", "r", "s">>, <<"*">>>> >>)

isStripped_KeepReportOnly(k) ==
  \/ k = <<"x", "-", "f", "r", "a", "m", "e", "-", "o", "p", "t", "i", "o", "n", "s">>
  \/ k = <<"c", "o", "n", "t", "e", "n", "t", "-", "s", "e", "c", "u", "r", "i", "t", "y", "-", "p", "o", "l", "i", "c", "y">>

\* The three `continue` tests of cleanHeaders.
isStripped(k) ==
  \/ k = <<"x", "-", "f", "r", "a", "m", "e", "-", "o", "p", "t", "i", "o", "n", "s">>
  \/ k = <<"c", "o", "n", "t", "e", "n", "t", "-", "s", "e", "c", "u", "r", "i", "t", "y", "-", "p", "o", "l", "i", "c", "y">>
  \/ k = <<"c", "o", "n", "t", "e", "n", "t", "-", "s", "e", "c", "u", "r", "i", "t", "y", "-", "p", "o", "l", "i", "c", "y", "-", "r", "e", "p", "o", "r", "t", "-", "o", "n", "l", "y">>

RECURSIVE cleanHeadersLoop(_, _, _)
cleanHeadersLoop(entries, i, acc) ==
  IF i > Len(entries) THEN acc
  ELSE LET key == entries[i][1]
           value == entries[i][2]
           k == toLowerCase(key)
       IN IF isStripped(k) THEN cleanHeadersLoop(entries, i + 1, acc)
          ELSE cleanHeadersLoop(entries, i + 1, HeadersSet(acc, key, value))

cleanHeaders_NoAllowOrigin(headers) ==
  cleanHeadersLoop(HeadersEntries(headers, 1), 1, <<>>)

cleanHeaders(headers) ==
  HeadersSet(cleanHeadersLoop(HeadersEntries(headers, 1), 1, <<>>),
             AccessControlAllowOrigin, <<"*">>)

(***************************************************************************)
(* new URL(text): the parts of the URL parser the handler relies on.  A    *)
(* text without a scheme does not parse (there is no base); an http(s) URL *)
(* needs a host; protocol and host come out lower-cased and a default port *)
(* is dropped.  Userinfo, IPv6 hosts and IDNA are not modelled.            *)
(***************************************************************************)
SchemeChars == Letters \cup Digits \cup {"+", "-", "."}

\* Length of the scheme of text (the part before the first ":"), 0 when it has none.
schemeLen(text) ==
  LET n == RunLen(text, 1, {":"})
  IN IF /\ n >= 1
        /\ n < Len(text)
        /\ text[1] \in Letters
        /\ \A i \in 1..n : text[i] \in SchemeChars
     THEN n ELSE 0

dropDefaultPort(scheme, host) ==
  LET port == IF scheme = <<"h", "t", "t", "p", "s">> THEN <<":", "4", "4", "3">> ELSE <<":", "8", "0">>
  IN IF Len(host) > Len(port) /\ SubSeq(host, Len(host) - Len(port) + 1, Len(host)) = port
     THEN SubSeq(host, 1, Len(host) - Len(port))
     ELSE host

parseURL(text) ==
  LET n == schemeLen(text)
      scheme == toLowerCase(SubSeq(text, 1, n))
      rest == SubSeq(text, n + 2, Len(text))
      slashes == LeadLen(rest, {"/", "\\"})
      authority == SubSeq(rest, slashes + 1, Len(rest))
      host == SubSeq(authority, 1, RunLen(authority, 1, {"/", "\\", "?", "#"}))
  IN IF n = 0 THEN [ok |-> FALSE]
     ELSE IF scheme \in {<<"h", "t", "t", "p">>, <<"h", "t", "t", "p", "s">>}
     THEN IF host = <<>> THEN [ok |-> FALSE]
          ELSE [ok |-> TRUE, protocol |-> scheme \o <<":">>,
                host |-> dropDefaultPort(scheme, toLowerCase(host))]
     ELSE [ok |-> TRUE, protocol |-> scheme \o <<":">>, host |-> <<>>]

(***************************************************************************)
(* proxyUrl, rewriteHtml, rewriteCss                                       *)
(***************************************************************************)
PROXY_URL == <<"h", "t", "t", "p", "s", ":", "/", "/", "t", "v", "-", "p", "r", "o", "x", "y", ".", "s", "h", "a", "r", "i", "f", "l", "i", "i", ".", "w", "o", "r", "k", "e", "r", "s", ".", "d", "e", "v">>

proxyEndpoint_Unencoded(resolved) == PROXY_URL \o <<"/", "?", "u", "r", "l", "=">> \o resolved

\* `${PROXY_URL}/?url=${encodeURIComponent(absolute)}`
proxyEndpoint(resolved) == PROXY_URL \o <<"/", "?", "u", "r", "l", "=">> \o encodeURIComponent(resolved)

absolute_SlashFirst(originalUrl, base) ==
  IF startsWith(originalUrl, <<"/">>) THEN base \o originalUrl
  ELSE IF startsWith(originalUrl, <<"/", "/">>) THEN <<"h", "t", "t", "p", "s", ":">> \o originalUrl
  ELSE IF startsWith(originalUrl, <<"h", "t", "t", "p">>) THEN originalUrl
  ELSE base \o <<"/">> \o originalUrl

\* The local variable `absolute` of proxyUrl: the reference resolved against the
\* base origin by the four startsWith tests, in their order.
absolute(originalUrl, base) ==
  IF startsWith(originalUrl, <<"/", "/">>) THEN <<"h", "t", "t", "p", "s", ":">> \o originalUrl
  ELSE IF startsWith(originalUrl, <<"/">>) THEN base \o originalUrl
  ELSE IF startsWith(originalUrl, <<"h", "t", "t", "p">>) THEN originalUrl
  ELSE base \o <<"/">> \o originalUrl

proxyUrl(originalUrl, base) == proxyEndpoint(absolute(originalUrl, base))

fixScript == <<"<", "s", "c", "r", "i", "p", "t", ">", "(", "f", "u", "n", "c", "t", "i", "o", "n", "(", ")", "{", "t", "r", "y", "{", "h", "i", "s", "t", "o", "r", "y", ".", "p", "u", "s", "h", "S", "t", "a", "t", "e", "=", "h", "i", "s", "t", "o", "r", "y", ".", "r", "e", "p", "l", "a", "c", "e", "S", "t", "a", "t", "e", "=", "f", "u", "n", "c", "t", "i", "o", "n", "(", ")", "{", "}", ";", "}", "c", "a", "t", "c", "h", "(", "e", ")", "{", "}", "}", ")", "(", ")", ";", "<", "/", "s", "c", "r", "i", "p", "t", ">">>

Quotes == {"\"", "'"}

NoMatch == [ok |-> FALSE]

\* Whether word (lower case) stands at position i of s, in any letter case.
wordAt(s, i, word) ==
  i + Len(word) - 1 <= Len(s) /\ toLowerCase(SubSeq(s, i, i + Len(word) - 1)) = word

\* A match of /(names)=["']([^"']+)["']/i at position i of s: the attribute name
\* as written, "=", a quote, one or more characters that are not quotes, a quote.
\* The greedy class stops at the first quote, so the match, if any, is unique.
attrMatch(s, i, names) ==
  LET hits == {w \in names : wordAt(s, i, w)}
      w == CHOOSE x \in hits : TRUE
      eq == i + Len(w)
      n == RunLen(s, eq + 2, Quotes)
  IN IF /\ hits # {}
        /\ eq + 1 <= Len(s)
        /\ s[eq] = "="
        /\ s[eq + 1] \in Quotes
        /\ n >= 1
        /\ eq + 2 + n <= Len(s)
     THEN [ok |-> TRUE, len |-> Len(w) + 3 + n,
           attr |-> SubSeq(s, i, eq - 1), url |-> SubSeq(s, eq + 2, eq + 1 + n)]
     ELSE NoMatch

isExemptAttr_OnlyData(url) == startsWith(url, <<"d", "a", "t", "a", ":">>)

\* The test of the src/href callback that returns the match unchanged.
isExemptAttr(url) ==
  \/ startsWith(url, <<"d", "a", "t", "a", ":">>)
  \/ startsWith(url, <<"j", "a", "v", "a", "s", "c", "r", "i", "p", "t", ":">>)
  \/ startsWith(url, <<"#">>)

\* Position of the leftmost match of the attribute pattern at or after i, 0 if none.
nextAttr(s, i, names) ==
  LET at == {j \in i..Len(s) : attrMatch(s, j, names).ok}
  IN IF at = {} THEN 0 ELSE Min(at)

SrcHref == {<<"s", "r", "c">>, <<"h", "r", "e", "f">>}

\* html.replace(/(src|href)=["']([^"']+)["']/gi, callback), scanning from i:
\* the text up to the next match is kept, the match is replaced by the callback's
\* result and the scan goes on after the match.
RECURSIVE replaceSrcHref(_, _, _)
replaceSrcHref(html, i, base) ==
  LET j == nextAttr(html, i, SrcHref)
      m == attrMatch(html, j, SrcHref)
  IN IF j = 0 THEN SubSeq(html, i, Len(html))
     ELSE SubSeq(html, i, j - 1)
          \o (IF isExemptAttr(m.url) THEN SubSeq(html, j, j + m.len - 1)
              ELSE m.attr \o <<"=", "\"">> \o proxyUrl(m.url, base) \o <<"\"">>)
          \o replaceSrcHref(html, j + m.len, base)

srcsetCandidate_NoDescriptor(part, base) == proxyUrl(splitSpaces(trim(part))[1], base)

\* The callback of the srcset map: one candidate, rewritten.
srcsetCandidate(part, base) ==
  LET tokens == splitSpaces(trim(part))
      url == tokens[1]
      size == IF Len(tokens) >= 2 THEN tokens[2] ELSE <<>>
  IN trim(proxyUrl(url, base) \o <<" ">> \o size)

srcsetValue(srcset, base) ==
  LET parts == split(srcset, ",")
  IN join([k \in 1..Len(parts) |-> srcsetCandidate(parts[k], base)], <<",", " ">>)

\* html.replace(/srcset=["']([^"']+)["']/gi, callback), scanning from i.
RECURSIVE replaceSrcset(_, _, _)
replaceSrcset(html, i, base) ==
  LET j == nextAttr(html, i, {<<"s", "r", "c", "s", "e", "t">>})
      m == attrMatch(html, j, {<<"s", "r", "c", "s", "e", "t">>})
  IN IF j = 0 THEN SubSeq(html, i, Len(html))
     ELSE SubSeq(html, i, j - 1)
          \o <<"s", "r", "c", "s", "e", "t", "=", "\"">> \o srcsetValue(m.url, base) \o <<"\"">>
          \o replaceSrcset(html, j + m.len, base)

\* html.replace(tag, tag + fixScript): the first occurrence only.
injectAfter(html, tag) ==
  LET at == indexOf(html, tag)
  IN SubSeq(html, 1, at + Len(tag) - 1) \o fixScript
     \o SubSeq(html, at + Len(tag), Len(html))

injectFixScript_LowerOnly(html) ==
  IF includes(html, <<"<", "h", "e", "a", "d", ">">>) THEN injectAfter(html, <<"<", "h", "e", "a", "d", ">">>) ELSE html

\* The two includes tests and the replace of the first occurrence of the tag found.
injectFixScript(html) ==
  IF includes(html, <<"<", "h", "e", "a", "d", ">">>) THEN injectAfter(html, <<"<", "h", "e", "a", "d", ">">>)
  ELSE IF includes(html, <<"<", "H", "E", "A", "D", ">">>) THEN injectAfter(html, <<"<", "H", "E", "A", "D", ">">>)
  ELSE html

rewriteHtml(html, base) ==
  injectFixScript(replaceSrcset(replaceSrcHref(html, 1, base), 1, base))

\* A match of /url\(["']?([^)"']+)["']?\)/i at position i of s: "url(", an
\* optional quote, one or more characters other than ) " ', an optional quote, ")".
\* The greedy class stops at the first ) " or ', and no shorter run can be
\* followed by a quote or ")", so the match, if any, is unique.
cssMatch(s, i) ==
  LET open == i + 4
      quoted == open <= Len(s) /\ s[open] \in Quotes
      first == IF quoted THEN open + 1 ELSE open
      n == RunLen(s, first, {")", "\"", "'"})
      after == first + n
      len == IF s[after] = ")" THEN after + 1 - i ELSE after + 2 - i
  IN IF /\ wordAt(s, i, <<"u", "r", "l", "(">>)
        /\ n >= 1
        /\ after <= Len(s)
        /\ \/ s[after] = ")"
           \/ s[after] \in Quotes /\ after + 1 <= Len(s) /\ s[after + 1] = ")"
     THEN [ok |-> TRUE, len |-> len, url |-> SubSeq(s, first, after - 1)]
     ELSE NoMatch

isExemptCss_AlsoFragment(url) == startsWith(url, <<"d", "a", "t", "a", ":">>) \/ startsWith(url, <<"#">>)

\* The test of the url() callback that returns the match unchanged.
isExemptCss(url) == startsWith(url, <<"d", "a", "t", "a", ":">>)

\* css.replace(/url\(["']?([^)"']+)["']?\)/gi, callback), scanning from i.
nextCssUrl(s, i) ==
  LET at == {j \in i..Len(s) : cssMatch(s, j).ok}
  IN IF at = {} THEN 0 ELSE Min(at)

RECURSIVE replaceCssUrl(_, _, _)
replaceCssUrl(css, i, base) ==
  LET j == nextCssUrl(css, i)
      m == cssMatch(css, j)
  IN IF j = 0 THEN SubSeq(css, i, Len(css))
     ELSE SubSeq(css, i, j - 1)
          \o (IF isExemptCss(m.url) THEN SubSeq(css, j, j + m.len - 1)
              ELSE <<"u", "r", "l", "(", "\"">> \o proxyUrl(m.url, base) \o <<"\"", ")">>)
          \o replaceCssUrl(css, j + m.len, base)

rewriteCss(css, base) == replaceCssUrl(css, 1, base)

(***************************************************************************)
(* The Response constructor and the handler's steps.                       *)
(***************************************************************************)
NullBodyStatuses == {101, 204, 205, 304}

\* Messages of the exceptions the runtime raises; their wording is the runtime's.
InvalidUrlMessage == <<"I", "n", "v", "a", "l", "i", "d", " ", "U", "R", "L">>

RangeErrorMessage == <<"s", "t", "a", "t", "u", "s", " ", "o", "u", "t", " ", "o", "f", " ", "r", "a", "n", "g", "e">>

NullBodyMessage == <<"n", "u", "l", "l", " ", "b", "o", "d", "y", " ", "s", "t", "a", "t", "u", "s">>

BodyReadMessage == <<"b", "o", "d", "y", " ", "r", "e", "a", "d", " ", "f", "a", "i", "l", "e", "d">>

FetchErrorMessages == {<<"n", "e", "t", "w", "o", "r", "k", " ", "f", "a", "i", "l", "u", "r", "e">>, <<"D", "N", "S", " ", "f", "a", "i", "l", "u", "r", "e">>}

\* new Response(body, {status, headers}): a RangeError for a status outside
\* 200..599, a TypeError for a body given with a null body status.  Runtimes
\* differ on a zero-length body given with a null body status: the Fetch standard
\* throws, a lenient runtime takes it as no body; lenient tells which one runs.
newResponse(body, status, headers, lenient) ==
  IF status < 200 \/ status > 599
  THEN [threw |-> TRUE, message |-> RangeErrorMessage]
  ELSE IF body # Null /\ status \in NullBodyStatuses /\ ~(lenient /\ body = <<>>)
  THEN [threw |-> TRUE, message |-> NullBodyMessage]
  ELSE [threw |-> FALSE,
        value |-> [status |-> status, headers |-> headers,
                   body |-> IF status \in NullBodyStatuses THEN Null ELSE body]]

\* A `return` of the handler.
returned(response) == [kind |-> "return", response |-> response, caught |-> Null]

catch_Rethrow(error) == [kind |-> "fault", error |-> error]

catch_BadGateway(error) ==
  [kind |-> "return", caught |-> error,
   response |-> newResponse(<<"P", "r", "o", "x", "y", " ", "e", "r", "r", "o", "r", ":", " ">> \o error, 502, corsHeaders, FALSE).value]

\* The catch clause: the exception becomes the 500 response.
catch(error) ==
  [kind |-> "return", caught |-> error,
   response |-> newResponse(<<"P", "r", "o", "x", "y", " ", "e", "r", "r", "o", "r", ":", " ">> \o error, 500, corsHeaders, FALSE).value]

\* `return new Response(...)` inside the try block: the constructor may throw.
construct(body, status, headers, lenient) ==
  LET r == newResponse(body, status, headers, lenient)
  IN IF r.threw THEN catch(r.message) ELSE returned(r.value)

\* The headers of the upstream fetch call.
fetchInit(request) ==
  Headers(<< <<<<"U", "s", "e", "r", "-", "A", "g", "e", "n", "t">>, <<"M", "o", "z", "i", "l", "l", "a", "/", "5", ".", "0">>>>,
             <<<<"A", "c", "c", "e", "p", "t">>, IF falsy(request.accept) THEN <<"*", "/", "*">> ELSE request.accept>>,
             <<<<"A", "c", "c", "e", "p", "t", "-", "L", "a", "n", "g", "u", "a", "g", "e">>, <<"e", "n", "-", "U", "S", ",", "e", "n", ";", "q", "=", "0", ".", "9">>>> >>)

handleEntry_ValidateFirst(request) ==
  LET targetUrl == searchParamsGet(request.query, <<"u", "r", "l">>)
      targetUrlObj == parseURL(targetUrl)
  IN IF falsy(targetUrl)
     THEN returned(newResponse(<<"M", "i", "s", "s", "i", "n", "g", " ", "u", "r", "l", " ", "p", "a", "r", "a", "m", "e", "t", "e", "r">>, 400, corsHeaders, FALSE).value)
     ELSE IF request.method = "OPTIONS"
     THEN returned(newResponse(Null, 200, corsHeaders, FALSE).value)
     ELSE IF ~targetUrlObj.ok THEN catch(InvalidUrlMessage)
     ELSE [kind |-> "fetch",
           call |-> [url |-> targetUrl, headers |-> fetchInit(request)],
           baseUrl |-> targetUrlObj.protocol \o <<"/", "/">> \o targetUrlObj.host]

handleEntry_BaseIsTarget(request) ==
  LET targetUrl == searchParamsGet(request.query, <<"u", "r", "l">>)
      targetUrlObj == parseURL(targetUrl)
  IN IF request.method = "OPTIONS"
     THEN returned(newResponse(Null, 200, corsHeaders, FALSE).value)
     ELSE IF falsy(targetUrl)
     THEN returned(newResponse(<<"M", "i", "s", "s", "i", "n", "g", " ", "u", "r", "l", " ", "p", "a", "r", "a", "m", "e", "t", "e", "r">>, 400, corsHeaders, FALSE).value)
     ELSE IF ~targetUrlObj.ok THEN catch(InvalidUrlMessage)
     ELSE [kind |-> "fetch",
           call |-> [url |-> targetUrl, headers |-> fetchInit(request)],
           baseUrl |-> targetUrl]

handleEntry_GetOnly(request) ==
  LET targetUrl == searchParamsGet(request.query, <<"u", "r", "l">>)
      targetUrlObj == parseURL(targetUrl)
  IN IF request.method = "OPTIONS"
     THEN returned(newResponse(Null, 200, corsHeaders, FALSE).value)
     ELSE IF request.method # "GET"
     THEN returned(newResponse(<<"M", "e", "t", "h", "o", "d", " ", "n", "o", "t", " ", "a", "l", "l", "o", "w", "e", "d">>, 405, corsHeaders, FALSE).value)
     ELSE IF falsy(targetUrl)
     THEN returned(newResponse(<<"M", "i", "s", "s", "i", "n", "g", " ", "u", "r", "l", " ", "p", "a", "r", "a", "m", "e", "t", "e", "r">>, 400, corsHeaders, FALSE).value)
     ELSE IF ~targetUrlObj.ok THEN catch(InvalidUrlMessage)
     ELSE [kind |-> "fetch",
           call |-> [url |-> targetUrl, headers |-> fetchInit(request)],
           baseUrl |-> targetUrlObj.protocol \o <<"/", "/">> \o targetUrlObj.host]

\* The handler up to its first await: preflight, validation, URL parsing and the
\* fetch call.
handleEntry(request) ==
  LET targetUrl == searchParamsGet(request.query, <<"u", "r", "l">>)
      targetUrlObj == parseURL(targetUrl)
  IN IF request.method = "OPTIONS"
     THEN returned(newResponse(Null, 200, corsHeaders, FALSE).value)
     ELSE IF falsy(targetUrl)
     THEN returned(newResponse(<<"M", "i", "s", "s", "i", "n", "g", " ", "u", "r", "l", " ", "p", "a", "r", "a", "m", "e", "t", "e", "r">>, 400, corsHeaders, FALSE).value)
     ELSE IF ~targetUrlObj.ok THEN catch(InvalidUrlMessage)
     ELSE [kind |-> "fetch",
           call |-> [url |-> targetUrl, headers |-> fetchInit(request)],
           baseUrl |-> targetUrlObj.protocol \o <<"/", "/">> \o targetUrlObj.host]

\* response.headers.get('content-type') || ''
contentTypeOf(response) ==
  LET v == HeadersGet(response.headers, <<"c", "o", "n", "t", "e", "n", "t", "-", "t", "y", "p", "e">>)
  IN IF falsy(v) THEN <<>> ELSE v

classify_CssFirst(contentType) ==
  IF includes(contentType, <<"t", "e", "x", "t", "/", "c", "s", "s">>) THEN "css"
  ELSE IF includes(contentType, <<"t", "e", "x", "t", "/", "h", "t", "m", "l">>) THEN "html"
  ELSE "passthrough"

\* The two includes tests of the dispatch, in their order.
classify(contentType) ==
  IF includes(contentType, <<"t", "e", "x", "t", "/", "h", "t", "m", "l">>) THEN "html"
  ELSE IF includes(contentType, <<"t", "e", "x", "t", "/", "c", "s", "s">>) THEN "css"
  ELSE "passthrough"

\* The body the passthrough branch hands to the new Response: response.body.
passthroughBody(response) == response.body

\* The status given to the outbound Response: response.status.
responseStatus(response) == response.status

\* The handler from the resolution of the fetch to its next await or return.
dispatch(response, lenient) ==
  LET headers == cleanHeaders(response.headers)
      to == classify(contentTypeOf(response))
  IN IF to = "passthrough"
     THEN [step |-> construct(passthroughBody(response), responseStatus(response), headers, lenient),
           branch |-> to, newHeaders |-> headers]
     ELSE [step |-> [kind |-> "text"], branch |-> to, newHeaders |-> headers]

\* await response.text(): the body decoded, "" when there is none.
textOf(response) == IF response.body = Null THEN <<>> ELSE response.body

rewritten(to, text, base) ==
  IF to = "html" THEN rewriteHtml(text, base) ELSE rewriteCss(text, base)

\* The handler from the resolution of response.text() to its return.
finish(response, to, base, headers, lenient) ==
  construct(rewritten(to, textOf(response), base), responseStatus(response), headers, lenient)

(***************************************************************************)
(* Inputs: the requests, the upstream responses and the rewriter texts     *)
(* the model draws from.                                                   *)
(***************************************************************************)
Slots == {1}

Methods == {"GET", "POST", "HEAD", "OPTIONS"}

\* Query strings of the inbound request URL: no url parameter, an empty one, one
\* that is no absolute URL, absolute http(s) URLs, and a non-http absolute URL.
Queries == {
  <<>>,
  <<"x", "=", "1">>,
  <<"u", "r", "l", "=">>,
  <<"u", "r", "l", "=", "%", "2", "F", "p", "a", "g", "e">>,
  <<"u", "r", "l", "=", "h", "t", "t", "p", "s", "%", "3", "A", "%", "2", "F", "%", "2", "F", "e", ".", "c", "o", "m", "%", "2", "F", "a", "%", "3", "F", "b", "%", "3", "D", "1">>,
  <<"u", "r", "l", "=", "H", "T", "T", "P", "%", "3", "A", "%", "2", "F", "%", "2", "F", "E", ".", "c", "o", "m", ":", "8", "0", "8", "0", "&", "x", "=", "1">>,
  <<"u", "r", "l", "=", "d", "a", "t", "a", "%", "3", "A", "x">> }

Accepts == {Null, <<"t", "e", "x", "t", "/", "c", "s", "s">>}

UpstreamStatuses == {200, 204, 304, 404, 999}

ContentTypeLines == {
  <<>>,
  << <<<<"C", "o", "n", "t", "e", "n", "t", "-", "T", "y", "p", "e">>, <<"t", "e", "x", "t", "/", "h", "t", "m", "l">>>> >>,
  << <<<<"c", "o", "n", "t", "e", "n", "t", "-", "t", "y", "p", "e">>, <<"T", "e", "x", "t", "/", "H", "T", "M", "L", ";", " ", "c", "h", "a", "r", "s", "e", "t", "=", "u", "t", "f", "-", "8">>>> >>,
  << <<<<"C", "o", "n", "t", "e", "n", "t", "-", "T", "y", "p", "e">>, <<"t", "e", "x", "t", "/", "c", "s", "s">>>> >>,
  << <<<<"C", "O", "N", "T", "E", "N", "T", "-", "T", "Y", "P", "E">>, <<"T", "E", "X", "T", "/", "C", "S", "S">>>> >>,
  << <<<<"C", "o", "n", "t", "e", "n", "t", "-", "T", "y", "p", "e">>, <<"i", "m", "a", "g", "e", "/", "p", "n", "g">>>> >>,
  << <<<<"C", "o", "n", "t", "e", "n", "t", "-", "T", "y", "p", "e">>, <<"t", "e", "x", "t", "/", "c", "s", "s">>>>, <<<<"C", "o", "n", "t", "e", "n", "t", "-", "T", "y", "p", "e">>, <<"t", "e", "x", "t", "/", "h", "t", "m", "l">>>> >> }

OtherLines == {
  <<>>,
  << <<<<"X", "-", "F", "r", "a", "m", "e", "-", "O", "p", "t", "i", "o", "n", "s">>, <<"D", "E", "N", "Y">>>>,
     <<<<"c", "o", "n", "t", "e", "n", "t", "-", "s", "e", "c", "u", "r", "i", "t", "y", "-", "p", "o", "l", "i", "c", "y">>, <<"f", "r", "a", "m", "e", "-", "a", "n", "c", "e", "s", "t", "o", "r", "s", " ", "'", "n", "o", "n", "e", "'">>>> >>,
  << <<<<"C", "O", "N", "T", "E", "N", "T", "-", "S", "E", "C", "U", "R", "I", "T", "Y", "-", "P", "O", "L", "I", "C", "Y", "-", "R", "E", "P", "O", "R", "T", "-", "O", "N", "L", "Y">>, <<"d", "e", "f", "a", "u", "l", "t", "-", "s", "r", "c", " ", "'", "s", "e", "l", "f", "'">>>>,
     <<<<"x", "-", "f", "r", "a", "m", "e", "-", "o", "p", "t", "i", "o", "n", "s">>, <<"S", "A", "M", "E", "O", "R", "I", "G", "I", "N">>>>,
     <<<<"a", "c", "c", "e", "s", "s", "-", "c", "o", "n", "t", "r", "o", "l", "-", "a", "l", "l", "o", "w", "-", "o", "r", "i", "g", "i", "n">>, <<"h", "t", "t", "p", "s", ":", "/", "/", "e", ".", "c", "o", "m">>>> >>,
  << <<<<"S", "e", "t", "-", "C", "o", "o", "k", "i", "e">>, <<"a", "=", "1">>>>, <<<<"C", "a", "c", "h", "e", "-", "C", "o", "n", "t", "r", "o", "l">>, <<"n", "o", "-", "c", "a", "c", "h", "e">>>>,
     <<<<"s", "e", "t", "-", "c", "o", "o", "k", "i", "e">>, <<"b", "=", "2">>>>, <<<<"c", "a", "c", "h", "e", "-", "c", "o", "n", "t", "r", "o", "l">>, <<"n", "o", "-", "s", "t", "o", "r", "e">>>> >> }

UpstreamBodies == {
  <<>>,
  <<"<", "h", "e", "a", "d", ">", "<", "i", "m", "g", " ", "s", "r", "c", "=", "\"", "a", ".", "p", "n", "g", "\"", ">">>,
  <<"a", "{", "b", "a", "c", "k", "g", "r", "o", "u", "n", "d", ":", "u", "r", "l", "(", "/", "b", "g", ".", "p", "n", "g", ")", "}">> }

\* The responses an upstream may answer with.  A null body status carries no body.
UpstreamResponses ==
  {[status |-> s, headers |-> Headers(c \o o), body |-> b] :
     s \in UpstreamStatuses \ NullBodyStatuses, c \in ContentTypeLines,
     o \in OtherLines, b \in UpstreamBodies}
  \cup
  {[status |-> s, headers |-> Headers(c \o o), body |-> Null] :
     s \in UpstreamStatuses \cap NullBodyStatuses, c \in ContentTypeLines,
     o \in OtherLines}

NoRequest == [method |-> "none"]

NoResponse == [status |-> 0]

(***************************************************************************)
(* The front end: the project list, the channel arithmetic, the preview    *)
(* the TV loads for a project, and the TV as its constructor leaves it.    *)
(* The page's elements (previewContainer, previewFrame, the knob, the      *)
(* buttons) are taken to exist, as TVController.init looks them up by id.  *)
(***************************************************************************)
PROJECTS ==
  << [id |-> 1, url |-> <<"h", "t", "t", "p", "s", ":", "/", "/", "v", "i", "s", "a", "c", "u", "s", ".", "c", "o", "m">>, useIcon |-> FALSE, screenshot |-> Null],
     [id |-> 2, url |-> <<"h", "t", "t", "p", "s", ":", "/", "/", "g", "i", "t", "h", "u", "b", ".", "c", "o", "m", "/", "s", "h", "a", "r", "i", "f", "l", "i", "4", "/", "x", "j", "s", "o", "n">>, useIcon |-> FALSE, screenshot |-> Null],
     [id |-> 3, url |-> <<"h", "t", "t", "p", "s", ":", "/", "/", "g", "i", "t", "h", "u", "b", ".", "c", "o", "m", "/", "s", "h", "a", "r", "i", "f", "l", "i", "4", "/", "c", "l", "i", "c", "k", "b", "a", "i", "t", "-", "h", "i", "d", "e", "r">>, useIcon |-> FALSE, screenshot |-> Null],
     [id |-> 4, url |-> <<"h", "t", "t", "p", "s", ":", "/", "/", "w", "w", "w", ".", "l", "i", "n", "k", "e", "d", "i", "n", ".", "c", "o", "m", "/", "i", "n", "/", "k", "a", "n", "a", "n", "-", "s", "h", "a", "r", "i", "f", "l", "i", "/">>, useIcon |-> TRUE, screenshot |-> Null],
     [id |-> 5, url |-> <<"h", "t", "t", "p", "s", ":", "/", "/", "x", ".", "c", "o", "m", "/", "s", "h", "a", "r", "i", "f", "l", "i", "4">>, useIcon |-> TRUE, screenshot |-> Null] >>

\* The null that getProject returns for a channel without a project.
NoProject == [id |-> 0, url |-> <<>>, useIcon |-> FALSE, screenshot |-> Null]

\* PROJECTS.find(p => p.id === channelNum) || null
getProject(channelNum) ==
  LET found == {i \in DOMAIN PROJECTS : PROJECTS[i].id = channelNum}
  IN IF found = {} THEN NoProject
     ELSE PROJECTS[CHOOSE i \in found : \A j \in found : i <= j]

getTotalChannels == Len(PROJECTS)

getNextChannel_NoWrap(current) == current + 1

getNextChannel(current) ==
  LET max == getTotalChannels
  IN IF current >= max THEN 1 ELSE current + 1

getPrevChannel_NoWrap(current) == current - 1

getPrevChannel(current) ==
  LET max == getTotalChannels
  IN IF current <= 1 THEN max ELSE current - 1

AboutBlank == <<"a", "b", "o", "u", "t", ":", "b", "l", "a", "n", "k">>

\* The PROXY_URL constant of loadPreview.
loadPreview_PROXY_URL == <<"h", "t", "t", "p", "s", ":", "/", "/", "t", "v", "-", "p", "r", "o", "x", "y", ".", "s", "h", "a", "r", "i", "f", "l", "i", "i", ".", "w", "o", "r", "k", "e", "r", "s", ".", "d", "e", "v">>

loadPreview_Unencoded(project) ==
  IF project.useIcon THEN AboutBlank
  ELSE IF project.screenshot # Null THEN AboutBlank
  ELSE loadPreview_PROXY_URL \o <<"/", "?", "u", "r", "l", "=">> \o project.url

\* loadPreview(project): the src the preview iframe is left with.  The src is
\* reset to about:blank first; the icon and the screenshot previews leave it so.
loadPreview(project) ==
  IF project.useIcon THEN AboutBlank
  ELSE IF project.screenshot # Null THEN AboutBlank
  ELSE loadPreview_PROXY_URL \o <<"/", "?", "u", "r", "l", "=">> \o encodeURIComponent(project.url)

\* The project list never changes after the page has loaded: the src loadPreview
\* leaves the preview iframe with, for the project of each channel.
Previews ==
  [channel \in {PROJECTS[i].id : i \in DOMAIN PROJECTS} |-> loadPreview(getProject(channel))]

\* updateDisplay() with this.currentChannel = channel: the src of the preview iframe
\* afterwards.  A channel without a project leaves the display as it is.
updateDisplay(channel) ==
  IF getProject(channel) = NoProject THEN previewFrame ELSE Previews[channel]

Abs(n) == IF n < 0 THEN -n ELSE n

(***************************************************************************)
(* KnobControl.  Angles are integers counting twentieths of a degree, so   *)
(* that the snap positions of the channel knob (67.5 degrees apart) and    *)
(* the angle of every integer value of either knob are exact.  A knob is a *)
(* record of its element and its fields; a method gives the knob as the    *)
(* call leaves it and the onChange calls it made, in order.                *)
(***************************************************************************)
AngleScale == 20

Degrees(n) == n * AngleScale

\* The options initKnobs gives the channel knob.
channelKnobOptions ==
  LET totalChannels == getTotalChannels
      angleRange == Degrees(270)
      angleStep == angleRange \div (totalChannels - 1)
  IN [minValue |-> 1, maxValue |-> totalChannels, step |-> 1,
      minAngle |-> Degrees(-135), maxAngle |-> Degrees(135), snap |-> TRUE,
      snapPositions |-> [i \in 1..totalChannels |-> Degrees(-135) + ((i - 1) * angleStep)]]

\* The options initKnobs gives the volume knob; snapPositions is null.
volumeKnobOptions ==
  [minValue |-> 0, maxValue |-> 100, step |-> 5,
   minAngle |-> Degrees(-135), maxAngle |-> Degrees(135), snap |-> FALSE,
   snapPositions |-> <<>>]

\* this.options of the knob k: a knob is built once, for one element of the page,
\* with the options initKnobs has for that element.
KnobOptions == [channelKnob |-> channelKnobOptions, volumeKnob |-> volumeKnobOptions]

Options(k) == KnobOptions[k.element]

valueToAngle(k, value) ==
  LET range == Options(k).maxValue - Options(k).minValue
      angleRange == Options(k).maxAngle - Options(k).minAngle
  IN Options(k).minAngle + (((value - Options(k).minValue) * angleRange) \div range)

\* Math.round(num / den) for den > 0: the nearest integer, a half rounded up.
MathRound(num, den) == ((2 * num) + den) \div (2 * den)

\* Math.max(lo, Math.min(hi, x))
Clamp(lo, hi, x) == Max({lo, Min({hi, x})})

\* Both knobs have a positive step, so the value is always rounded to it.
angleToValue(k, angle) ==
  LET angleRange == Options(k).maxAngle - Options(k).minAngle
      range == Options(k).maxValue - Options(k).minValue
      \* minValue + normalized * range, as a fraction over angleRange
      num == (Options(k).minValue * angleRange) + ((angle - Options(k).minAngle) * range)
      value == MathRound(num, angleRange * Options(k).step) * Options(k).step
  IN Clamp(Options(k).minValue, Options(k).maxValue, value)

\* The loop of snapToNearest from position i on, with the nearest so far.
RECURSIVE snapFrom(_, _, _, _)
snapFrom(angle, positions, i, nearest) ==
  IF i > Len(positions) THEN nearest
  ELSE IF Abs(angle - positions[i]) < Abs(angle - nearest)
       THEN snapFrom(angle, positions, i + 1, positions[i])
       ELSE snapFrom(angle, positions, i + 1, nearest)

snapToNearest(angle, positions) == snapFrom(angle, positions, 1, positions[1])

\* new KnobControl(element, options) with options.initialValue = initialValue
KnobControl(element, initialValue) ==
  [element |-> element, value |-> initialValue,
   currentAngle |-> valueToAngle([element |-> element], initialValue),
   isDragging |-> FALSE, startAngle |-> 0, startValue |-> 0]

setValue_Unclamped(k, value, triggerCallback) ==
  LET oldValue == k.value
  IN [knob |-> [k EXCEPT !.value = value, !.currentAngle = valueToAngle(k, value)],
      calls |-> IF triggerCallback /\ oldValue # value
                THEN <<[value |-> value, oldValue |-> oldValue]>> ELSE <<>>]

setValue_AlwaysCalls(k, value, triggerCallback) ==
  LET oldValue == k.value
      newValue == Clamp(Options(k).minValue, Options(k).maxValue, value)
  IN [knob |-> [k EXCEPT !.value = newValue, !.currentAngle = valueToAngle(k, newValue)],
      calls |-> IF oldValue # newValue
                THEN <<[value |-> newValue, oldValue |-> oldValue]>> ELSE <<>>]

setValue(k, value, triggerCallback) ==
  LET oldValue == k.value
      newValue == Clamp(Options(k).minValue, Options(k).maxValue, value)
  IN [knob |-> [k EXCEPT !.value = newValue, !.currentAngle = valueToAngle(k, newValue)],
      calls |-> IF triggerCallback /\ oldValue # newValue
                THEN <<[value |-> newValue, oldValue |-> oldValue]>> ELSE <<>>]

\* startDrag with the pointer at pointerAngle from the knob's centre
\* (getAngleFromCenter: 0 is the top, clockwise is positive, -180 < angle <= 180).
startDrag(k, pointerAngle) ==
  [knob |-> [k EXCEPT !.isDragging = TRUE, !.startAngle = pointerAngle, !.startValue = k.value],
   calls |-> <<>>]

updateDrag(k, currentPointerAngle) ==
  LET delta == currentPointerAngle - k.startAngle
      unwrapped == IF delta > Degrees(180) THEN delta - Degrees(360) ELSE delta
      deltaAngle == IF unwrapped < Degrees(-180) THEN unwrapped + Degrees(360) ELSE unwrapped
      clamped == Clamp(Options(k).minAngle, Options(k).maxAngle,
                       valueToAngle(k, k.startValue) + deltaAngle)
      newAngle == IF Options(k).snapPositions # <<>>
                  THEN snapToNearest(clamped, Options(k).snapPositions)
                  ELSE clamped
      oldValue == k.value
      newValue == angleToValue(k, newAngle)
  IN [knob |-> [k EXCEPT !.currentAngle = newAngle, !.value = newValue],
      calls |-> IF oldValue # newValue
                THEN <<[value |-> newValue, oldValue |-> oldValue]>> ELSE <<>>]

\* endDrag.  startAngle and startValue are read by updateDrag alone, which runs
\* only between startDrag, which assigns them, and endDrag; they are put back to
\* what the constructor gave them, so that knobs differing in these two dead
\* fields are one state.
endDrag(k) ==
  IF ~k.isDragging THEN [knob |-> k, calls |-> <<>>]
  ELSE LET released == [k EXCEPT !.isDragging = FALSE, !.startAngle = 0, !.startValue = 0]
       IN IF Options(k).snap THEN setValue(released, released.value, TRUE)
          ELSE [knob |-> released, calls |-> <<>>]

onKeyDown(k, key) ==
  IF key \in {"ArrowUp", "ArrowRight"} THEN setValue(k, k.value + Options(k).step, TRUE)
  ELSE IF key \in {"ArrowDown", "ArrowLeft"} THEN setValue(k, k.value - Options(k).step, TRUE)
  ELSE IF key = "Home" THEN setValue(k, Options(k).minValue, TRUE)
  ELSE IF key = "End" THEN setValue(k, Options(k).maxValue, TRUE)
  ELSE [knob |-> k, calls |-> <<>>]

(***************************************************************************)
(* StaticEffect.  requested holds the ids of the animation frames that     *)
(* were requested and have neither run nor been cancelled; the id 0 stands *)
(* for null.  canvas tells whether the canvas shows noise or is clear.     *)
(***************************************************************************)
\* new StaticEffect('staticCanvas'), on a canvas that is clear.
StaticEffect ==
  [isRunning |-> FALSE, animationId |-> 0, requested |-> {}, canvas |-> "clear"]

\* requestAnimationFrame: an id that no pending request has.
requestAnimationFrame(e) ==
  Min({id \in 1..(Cardinality(e.requested) + 1) : id \notin e.requested})

\* animate(timestamp): due tells whether a frame interval has passed since the
\* last frame, in which case generateFrame draws a frame of noise.
animate(e, due) ==
  IF ~e.isRunning THEN e
  ELSE [e EXCEPT !.canvas = IF due THEN "noise" ELSE @,
                 !.animationId = requestAnimationFrame(e),
                 !.requested = @ \cup {requestAnimationFrame(e)}]

\* start(): animate(0) directly after lastFrameTime = 0 draws nothing, no
\* interval having passed.
start(e) == animate([e EXCEPT !.isRunning = TRUE], FALSE)

stop_KeepsRunning(e) ==
  [e EXCEPT !.requested = @ \ {e.animationId}, !.animationId = 0, !.canvas = "clear"]

\* stop(): cancelAnimationFrame(animationId) when animationId is not null, then
\* clearRect.
stop(e) ==
  [e EXCEPT !.isRunning = FALSE, !.requested = @ \ {e.animationId},
            !.animationId = 0, !.canvas = "clear"]

\* powerOnSilent stops the effect itself and leaves animationId as it is: the
\* id of a request that is cancelled.
stopSilent(e) ==
  [e EXCEPT !.isRunning = FALSE, !.requested = @ \ {e.animationId}, !.canvas = "clear"]

\* The knob harness after new KnobControl(element, options): the knob, the
\* method that ran last on it and the onChange calls that method made.
KnobHarness(element, initialValue) ==
  [control |-> KnobControl(element, initialValue), by |-> "constructor", called |-> <<>>]

\* No press of the power button or of the Space key has happened yet.  A press
\* is recorded with what it found: the event's target, isOn and isTransitioning.
NoPress ==
  [by |-> "none", tagName |-> "BODY", isOn |-> FALSE, isTransitioning |-> FALSE,
   toggled |-> FALSE]

\* The TV after new TVController() and init(), with the auto power-on timer of
\* RetroTVApp.setup pending.  init() ends with updateDisplay(), which loads the
\* preview of channel 1 behind the dark screen.
TVConstructed ==
  /\ isOn = FALSE
  /\ isTransitioning = FALSE
  /\ currentChannel = 1
  /\ channelKnob = KnobControl("channelKnob", 1)
  /\ previewFrame = Previews[1]
  /\ running = <<>>
  /\ startup = TRUE
  /\ press = NoPress
  /\ staticEffect = StaticEffect

\* The knob harness is not in use.
KnobIdle == knob = KnobHarness("channelKnob", 1)

(***************************************************************************)
(* The handler as a state machine: one action per run of the handler       *)
(* between two awaits.                                                     *)
(***************************************************************************)
HandlerInit ==
  /\ req = [r \in Slots |-> NoRequest]
  /\ pc = [r \in Slots |-> "idle"]
  /\ fetches = [r \in Slots |-> <<>>]
  /\ upstream = [r \in Slots |-> NoResponse]
  /\ baseUrl = [r \in Slots |-> <<>>]
  /\ newHeaders = [r \in Slots |-> <<>>]
  /\ branch = [r \in Slots |-> "none"]
  /\ thrown = [r \in Slots |-> <<>>]
  /\ responses = [r \in Slots |-> <<>>]
  /\ faults = [r \in Slots |-> <<>>]

RewriterIdle ==
  /\ input = [text |-> <<>>, base |-> <<>>]
  /\ output = [by |-> "none", text |-> <<>>]

Init == HandlerInit /\ RewriterIdle /\ TVConstructed /\ KnobIdle

\* The handler ends: it returned a response, or (kind "fault") an exception left it.
Settle(r, step) ==
  /\ pc' = [pc EXCEPT ![r] = "done"]
  /\ IF step.kind = "return"
     THEN /\ responses' = [responses EXCEPT ![r] = Append(@, step.response)]
          /\ thrown' = [thrown EXCEPT ![r] =
                          IF step.caught = Null THEN @ ELSE Append(@, step.caught)]
          /\ UNCHANGED faults
     ELSE /\ faults' = [faults EXCEPT ![r] = Append(@, step.error)]
          /\ thrown' = [thrown EXCEPT ![r] = Append(@, step.error)]
          /\ UNCHANGED responses

Receive_SharedBaseUrl(r, request) ==
  LET step == handleEntry(request)
  IN /\ req' = [req EXCEPT ![r] = request]
     /\ IF step.kind = "fetch"
        THEN /\ pc' = [pc EXCEPT ![r] = "fetching"]
             /\ fetches' = [fetches EXCEPT ![r] = Append(@, step.call)]
             /\ baseUrl' = [s \in DOMAIN baseUrl |-> step.baseUrl]
             /\ UNCHANGED <<thrown, responses, faults>>
        ELSE /\ Settle(r, step)
             /\ UNCHANGED <<fetches, baseUrl>>
     /\ UNCHANGED <<upstream, newHeaders, branch>>

\* The handler is called with request and runs to its first await or return.
Receive(r, request) ==
  LET step == handleEntry(request)
  IN /\ req' = [req EXCEPT ![r] = request]
     /\ IF step.kind = "fetch"
        THEN /\ pc' = [pc EXCEPT ![r] = "fetching"]
             /\ fetches' = [fetches EXCEPT ![r] = Append(@, step.call)]
             /\ baseUrl' = [baseUrl EXCEPT ![r] = step.baseUrl]
             /\ UNCHANGED <<thrown, responses, faults>>
        ELSE /\ Settle(r, step)
             /\ UNCHANGED <<fetches, baseUrl>>
     /\ UNCHANGED <<upstream, newHeaders, branch>>

\* A request arrives and the handler runs to its first await or return.
Handle(r) ==
  /\ pc[r] = "idle"
  /\ \E m \in Methods, q \in Queries, a \in Accepts :
       Receive(r, [method |-> m, query |-> q, accept |-> a])
  /\ UNCHANGED <<rewriterVars, tvVars, knobVars>>

\* The handler resumes with the upstream's response and runs to its next await or
\* return.
Respond(r, response, lenient) ==
  LET d == dispatch(response, lenient)
  IN /\ upstream' = [upstream EXCEPT ![r] = response]
     /\ newHeaders' = [newHeaders EXCEPT ![r] = d.newHeaders]
     /\ branch' = [branch EXCEPT ![r] = d.branch]
     /\ IF d.step.kind = "text"
        THEN /\ pc' = [pc EXCEPT ![r] = "reading"]
             /\ UNCHANGED <<thrown, responses, faults>>
        ELSE Settle(r, d.step)
     /\ UNCHANGED <<req, fetches, baseUrl>>

\* The upstream fetch resolves with a response (only an http(s) URL is fetched).
FetchResolve(r) ==
  /\ pc[r] = "fetching"
  /\ parseURL(fetches[r][Len(fetches[r])].url).host # <<>>
  /\ \E response \in UpstreamResponses, lenient \in BOOLEAN : Respond(r, response, lenient)
  /\ UNCHANGED <<rewriterVars, tvVars, knobVars>>

FetchReject_Retries(r) ==
  /\ pc[r] = "fetching"
  /\ \E error \in FetchErrorMessages :
       IF Len(fetches[r]) < 2
       THEN /\ fetches' = [fetches EXCEPT ![r] = Append(@, @[1])]
            /\ UNCHANGED <<pc, thrown, responses, faults>>
       ELSE /\ Settle(r, catch(error))
            /\ UNCHANGED fetches
  /\ UNCHANGED <<req, upstream, baseUrl, newHeaders, branch, rewriterVars, tvVars, knobVars>>

\* The upstream fetch throws: network failure, DNS failure, unsupported scheme.
FetchReject(r) ==
  /\ pc[r] = "fetching"
  /\ \E error \in FetchErrorMessages : Settle(r, catch(error))
  /\ UNCHANGED <<req, fetches, upstream, baseUrl, newHeaders, branch, rewriterVars, tvVars, knobVars>>

\* response.text() resolves: the body is rewritten and returned.
TextResolve(r) ==
  /\ pc[r] = "reading"
  /\ \E lenient \in BOOLEAN :
       Settle(r, finish(upstream[r], branch[r], baseUrl[r], newHeaders[r], lenient))
  /\ UNCHANGED <<req, fetches, upstream, baseUrl, newHeaders, branch, rewriterVars, tvVars, knobVars>>

\* response.text() throws: the upstream body could not be read.
TextReject(r) ==
  /\ pc[r] = "reading"
  /\ Settle(r, catch(BodyReadMessage))
  /\ UNCHANGED <<req, fetches, upstream, baseUrl, newHeaders, branch, rewriterVars, tvVars, knobVars>>

Next ==
  \E r \in Slots :
    \/ Handle(r)
    \/ FetchResolve(r)
    \/ FetchReject(r)
    \/ TextResolve(r)
    \/ TextReject(r)

Spec == Init /\ [][Next]_vars

(***************************************************************************)
(* The rewriters on their own: a text and a base origin are drawn, and     *)
(* rewriteHtml or rewriteCss is applied to them.                           *)
(***************************************************************************)
MaxFragments == 2

Fragments == <<
  <<"<", "h", "e", "a", "d", ">">>,
  <<"<", "H", "E", "A", "D", ">">>,
  <<"<", "i", "m", "g", " ", "s", "r", "c", "=", "\"", "a", ".", "p", "n", "g", "\"", ">">>,
  <<"<", "a", " ", "H", "R", "E", "F", "=", "'", "#", "t", "o", "p", "'", ">">>,
  <<"<", "a", " ", "h", "r", "e", "f", "=", "\"", "j", "a", "v", "a", "s", "c", "r", "i", "p", "t", ":", "g", "o", "(", ")", "\"", ">">>,
  <<"<", "i", "m", "g", " ", "s", "r", "c", "=", "'", "d", "a", "t", "a", ":", "x", "'", " ", "s", "r", "c", "s", "e", "t", "=", "\"", "b", ".", "p", "n", "g", " ", "2", "x", ",", " ", "/", "c", ".", "p", "n", "g", "\"", ">">>,
  <<"<", "i", "m", "g", " ", "s", "r", "c", "s", "e", "t", "=", "\"", "d", "a", "t", "a", ":", "x", " ", "1", "x", "\"", ">">>,
  <<"<", "i", "m", "g", " ", "s", "r", "c", "s", "e", "t", "=", "'", "#", "a", "'", ">">>,
  <<"u", "r", "l", "(", "/", "b", "g", ".", "p", "n", "g", ")">>,
  <<"U", "R", "L", "(", "'", "d", "a", "t", "a", ":", "x", "'", ")">>,
  <<"u", "r", "l", "(", "\"", "#", "f", "\"", ")">>,
  <<"u", "r", "l", "(", "j", "a", "v", "a", "s", "c", "r", "i", "p", "t", ":", "v", ")">>,
  <<"<", "a", " ", "H", "R", "E", "F", "=", "'", "/", "p", "'", ">">>,
  <<"<", "i", "m", "g", " ", "s", "r", "c", "s", "e", "t", "=", "\"", "a", ".", "p", "n", "g", " ", "1", "x", ",", " ", "b", ".", "p", "n", "g", " ", "2", "x", "\"", ">">>,
  <<"<", "i", "m", "g", " ", "S", "R", "C", "S", "E", "T", "=", "'", " ", "a", ".", "p", "n", "g", " ", " ", "4", "8", "0", "w", " ", "2", "x", ",", "'", ">">>,
  <<"u", "r", "l", "(", "'", "a", ".", "p", "n", "g", "'", ")">>,
  <<"<", "H", "e", "a", "d", ">">>,
  <<"<", "a", " ", "h", "r", "e", "f", "=", "\"", "j", "a", "v", "a", "s", "c", "r", "i", "p", "t", ":", "s", ".", "s", "r", "c", "s", "e", "t", "=", "'", "a", ".", "p", "n", "g", "'", "\"", ">">> >>

Texts ==
  {concat([k \in DOMAIN f |-> Fragments[f[k]]]) :
     f \in UNION {[1..m -> 1..Len(Fragments)] : m \in 1..MaxFragments}}

Bases == {<<"h", "t", "t", "p", "s", ":", "/", "/", "e", ".", "c", "o", "m">>, <<"h", "t", "t", "p", ":", "/", "/", "e", ".", "c", "o", "m", ":", "8", "0", "8", "0">>}

RewriteInit ==
  /\ HandlerInit
  /\ TVConstructed
  /\ KnobIdle
  /\ input \in [text : Texts, base : Bases]
  /\ output = [by |-> "none", text |-> <<>>]

RunRewriteHtml ==
  /\ output.by = "none"
  /\ output' = [by |-> "html", text |-> rewriteHtml(input.text, input.base)]
  /\ UNCHANGED <<input, handlerVars, tvVars, knobVars>>

RunRewriteCss ==
  /\ output.by = "none"
  /\ output' = [by |-> "css", text |-> rewriteCss(input.text, input.base)]
  /\ UNCHANGED <<input, handlerVars, tvVars, knobVars>>

RewriteNext == RunRewriteHtml \/ RunRewriteCss

SpecRewrite == RewriteInit /\ [][RewriteNext]_vars

(***************************************************************************)
(* proxyUrl on its own, and the request for the URL it produced: a         *)
(* reference and a base origin are drawn, proxyUrl is applied to them, and *)
(* the produced URL is then requested from the proxy.                      *)
(***************************************************************************)
\* References found in markup: empty, protocol-relative, site-absolute,
\* document-relative, absolute with several schemes and letter cases, file names
\* that begin with http, and references with & = ? # + % and spaces.
References == {
  <<>>,
  <<"/", "/", "c", "d", "n", ".", "e", ".", "c", "o", "m", "/", "x">>,
  <<"/", "p">>,
  <<"/", "a", " ", "b", "?", "c", "=", "d", "&", "e", "=", "f", "+", "g", "#", "h">>,
  <<"i", "m", "g", ".", "p", "n", "g">>,
  <<"a", "+", "b", " ", "c", ".", "p", "n", "g", "?", "x", "=", "1", "&", "y", "=", "2", "#", "z">>,
  <<"a", "%", "2", "0", "b", ".", "p", "n", "g">>,
  <<"?", "q", "=", "1">>,
  <<"h", "t", "t", "p", ":", "/", "/", "e", ".", "c", "o", "m", "/", "a">>,
  <<"h", "t", "t", "p", "s", ":", "/", "/", "e", ".", "c", "o", "m", "/", "a", "?", "b", "=", "1", "&", "c", "=", "2">>,
  <<"H", "T", "T", "P", ":", "/", "/", "E", ".", "c", "o", "m", "/", "a">>,
  <<"H", "t", "t", "p", "s", ":", "/", "/", "e", ".", "c", "o", "m", "/">>,
  <<"f", "t", "p", ":", "/", "/", "e", ".", "c", "o", "m", "/", "f">>,
  <<"m", "a", "i", "l", "t", "o", ":", "a", "@", "e", ".", "c", "o", "m">>,
  <<"h", "t", "t", "p", "-", "c", "l", "i", "e", "n", "t", ".", "j", "s">>,
  <<"h", "t", "t", "p", "s">>,
  <<"h", "t", "t", "p", "s", ":", "/", "/", "e", ".", "c", "o", "m">>,
  <<"h", "t", "t", "p", ":", "/", "/", "e", ".", "c", "o", "m", ":", "8", "0", "8", "0">> }

\* url.search of new URL(request.url), without its "?": the text between the
\* first "?" and the first "#" after it.
searchOf(url) ==
  LET q == RunLen(url, 1, {"?"})
      rest == SubSeq(url, q + 2, Len(url))
  IN SubSeq(rest, 1, RunLen(rest, 1, {"#"}))

ResolveInit ==
  /\ HandlerInit
  /\ TVConstructed
  /\ KnobIdle
  /\ input \in [text : References, base : Bases]
  /\ output = [by |-> "none", text |-> <<>>]

\* proxyUrl(reference, baseUrl) is called.
RunProxyUrl ==
  /\ output.by = "none"
  /\ output' = [by |-> "proxyUrl", text |-> proxyUrl(input.text, input.base)]
  /\ UNCHANGED <<input, handlerVars, tvVars, knobVars>>

\* The browser requests the URL proxyUrl produced: the handler is called with a
\* GET request for it.
Dereference(r) ==
  /\ output.by = "proxyUrl"
  /\ pc[r] = "idle"
  /\ \E a \in Accepts :
       Receive(r, [method |-> "GET", query |-> searchOf(output.text), accept |-> a])
  /\ UNCHANGED <<rewriterVars, tvVars, knobVars>>

ResolveNext == RunProxyUrl \/ \E r \in Slots : Dereference(r)

SpecResolve == ResolveInit /\ [][ResolveNext]_vars

(***************************************************************************)
(* Two requests handled concurrently: the runtime runs one handler call    *)
(* per request and interleaves them at their awaits.                       *)
(***************************************************************************)
ConcSlots == {1, 2}

\* A preflight, a request without url, two requests for different targets on one
\* origin and a request for another origin.
ConcRequests == {
  [method |-> "OPTIONS", query |-> <<>>, accept |-> Null],
  [method |-> "GET", query |-> <<"u", "r", "l", "=">>, accept |-> Null],
  [method |-> "GET", query |-> <<"u", "r", "l", "=", "h", "t", "t", "p", "s", "%", "3", "A", "%", "2", "F", "%", "2", "F", "e", ".", "c", "o", "m", "%", "2", "F", "a", "%", "3", "F", "b", "%", "3", "D", "1">>, accept |-> Null],
  [method |-> "GET", query |-> <<"u", "r", "l", "=", "h", "t", "t", "p", "s", "%", "3", "A", "%", "2", "F", "%", "2", "F", "e", ".", "c", "o", "m", "%", "2", "F", "d", "i", "r", "%", "2", "F", "p", ".", "h", "t", "m", "l", "%", "3", "F", "q", "%", "3", "D", "2", "%", "2", "3", "f">>, accept |-> Null],
  [method |-> "POST", query |-> <<"u", "r", "l", "=", "H", "T", "T", "P", "%", "3", "A", "%", "2", "F", "%", "2", "F", "E", ".", "c", "o", "m", ":", "8", "0", "8", "0", "&", "x", "=", "1">>, accept |-> <<"t", "e", "x", "t", "/", "c", "s", "s">>] }

\* Upstream responses with a body, of type text/html or image/png, and a status
\* the Response constructor takes or refuses.
ConcResponses ==
  {u \in UpstreamResponses :
     /\ u.status \in {200, 999}
     /\ u.headers \in {Headers(<< <<<<"C", "o", "n", "t", "e", "n", "t", "-", "T", "y", "p", "e">>, <<"t", "e", "x", "t", "/", "h", "t", "m", "l">>>> >>), Headers(<< <<<<"C", "o", "n", "t", "e", "n", "t", "-", "T", "y", "p", "e">>, <<"i", "m", "a", "g", "e", "/", "p", "n", "g">>>> >>)}
     /\ u.body \notin {Null, <<>>}}

ConcInit ==
  /\ req = [r \in ConcSlots |-> NoRequest]
  /\ pc = [r \in ConcSlots |-> "idle"]
  /\ fetches = [r \in ConcSlots |-> <<>>]
  /\ upstream = [r \in ConcSlots |-> NoResponse]
  /\ baseUrl = [r \in ConcSlots |-> <<>>]
  /\ newHeaders = [r \in ConcSlots |-> <<>>]
  /\ branch = [r \in ConcSlots |-> "none"]
  /\ thrown = [r \in ConcSlots |-> <<>>]
  /\ responses = [r \in ConcSlots |-> <<>>]
  /\ faults = [r \in ConcSlots |-> <<>>]
  /\ RewriterIdle
  /\ TVConstructed
  /\ KnobIdle

ConcHandle(r) ==
  /\ pc[r] = "idle"
  /\ \E request \in ConcRequests : Receive(r, request)
  /\ UNCHANGED <<rewriterVars, tvVars, knobVars>>

ConcFetchResolve(r) ==
  /\ pc[r] = "fetching"
  /\ \E response \in ConcResponses, lenient \in BOOLEAN : Respond(r, response, lenient)
  /\ UNCHANGED <<rewriterVars, tvVars, knobVars>>

ConcNext ==
  \E r \in ConcSlots :
    \/ ConcHandle(r)
    \/ ConcFetchResolve(r)
    \/ FetchReject(r)
    \/ TextResolve(r)
    \/ TextReject(r)

SpecConc == ConcInit /\ [][ConcNext]_vars

(***************************************************************************)
(* Concurrent requests with an upstream that may never answer.  The await  *)
(* of the upstream fetch has no timeout and no abort signal: a fetch that  *)
(* the upstream never answers leaves its handler call suspended for good.  *)
(* Once the response headers are in, the read of the body settles and the  *)
(* runtime resumes the handler call that awaits it.                        *)
(***************************************************************************)
FetchHang_HoldsAll(r) ==
  /\ pc[r] = "fetching"
  /\ pc' = [s \in DOMAIN pc |-> IF pc[s] \in {"fetching", "reading"} THEN "hung" ELSE pc[s]]
  /\ UNCHANGED <<req, fetches, upstream, baseUrl, newHeaders, branch, thrown,
                 responses, faults, rewriterVars, tvVars, knobVars>>

\* The upstream never answers the fetch: the await never returns.
FetchHang(r) ==
  /\ pc[r] = "fetching"
  /\ pc' = [pc EXCEPT ![r] = "hung"]
  /\ UNCHANGED <<req, fetches, upstream, baseUrl, newHeaders, branch, thrown,
                 responses, faults, rewriterVars, tvVars, knobVars>>

LiveNext ==
  \E r \in ConcSlots :
    \/ ConcHandle(r)
    \/ ConcFetchResolve(r)
    \/ FetchReject(r)
    \/ FetchHang(r)
    \/ TextResolve(r)
    \/ TextReject(r)

SpecLive ==
  /\ ConcInit
  /\ [][LiveNext]_vars
  /\ \A r \in ConcSlots : WF_vars(TextReject(r) \/ TextResolve(r))

(***************************************************************************)
(* The TV as a state machine.  The page runs one task at a time, so every  *)
(* event handler and every continuation of an async method runs to its     *)
(* next await without interleaving: one action each.  running holds the    *)
(* calls of powerOn, powerOnSilent, powerOff and setChannel that are       *)
(* suspended at an await; their timers fire in any order.                  *)
(***************************************************************************)
Keys == {" ", "ArrowUp", "ArrowDown", "Enter"}

TagNames == {"BODY", "INPUT"}

\* A call that returns at once, or whose guard dropped it.
Dropped == UNCHANGED <<isTransitioning, running, staticEffect>>

\* A call sets isTransitioning and suspends at its first await.
Begin(op, at, channel) ==
  /\ isTransitioning' = TRUE
  /\ running' = Append(running, [op |-> op, at |-> at, channel |-> channel])

\* powerOn shows static during the warm-up: staticEffect.start().
powerOn ==
  IF isOn \/ isTransitioning THEN Dropped
  ELSE Begin("powerOn", "warmup", currentChannel) /\ staticEffect' = start(staticEffect)

\* powerOnSilent starts the effect itself, without sound: isRunning = true,
\* lastFrameTime = 0, animate(0).
powerOnSilent ==
  IF isOn \/ isTransitioning THEN Dropped
  ELSE /\ Begin("powerOnSilent", "warmup", currentChannel)
       /\ staticEffect' = animate([staticEffect EXCEPT !.isRunning = TRUE], FALSE)

powerOff ==
  IF ~isOn \/ isTransitioning THEN Dropped
  ELSE Begin("powerOff", "powering-off", currentChannel) /\ UNCHANGED staticEffect

setChannel_Unguarded(channel) ==
  IF ~isOn THEN Dropped
  ELSE IF channel = currentChannel THEN Dropped
  ELSE Begin("setChannel", "switching", channel) /\ staticEffect' = start(staticEffect)

\* setChannel suspends in playTransition, whose burst(400) starts the static.
setChannel(channel) ==
  IF ~isOn \/ isTransitioning THEN Dropped
  ELSE IF channel = currentChannel THEN Dropped
  ELSE Begin("setChannel", "switching", channel) /\ staticEffect' = start(staticEffect)

nextChannel == setChannel(getNextChannel(currentChannel))

prevChannel == setChannel(getPrevChannel(currentChannel))

togglePower_OnlyOn ==
  IF isTransitioning THEN Dropped
  ELSE powerOn

togglePower ==
  IF isTransitioning THEN Dropped
  ELSE IF isOn THEN powerOff ELSE powerOn

\* handleKeyboard(e) with e.key = key and e.target.tagName = tagName.
handleKeyboard(key, tagName) ==
  IF tagName \in {"INPUT", "TEXTAREA"} THEN Dropped
  ELSE IF key = " " THEN togglePower
  ELSE IF key = "ArrowUp" THEN (IF isOn THEN nextChannel ELSE Dropped)
  ELSE IF key = "ArrowDown" THEN (IF isOn THEN prevChannel ELSE Dropped)
  ELSE Dropped

\* The latest press once isOn has been assigned on: the press is marked as
\* toggled when isOn then differs from the value the press found.
pressAfter(on) ==
  IF press.by # "none" /\ press.isOn # on THEN [press EXCEPT !.toggled = TRUE]
  ELSE press

\* A click on the power button.
PowerButtonClick ==
  /\ press' = [by |-> "button", tagName |-> "BUTTON", isOn |-> isOn,
               isTransitioning |-> isTransitioning, toggled |-> FALSE]
  /\ togglePower
  /\ UNCHANGED <<isOn, currentChannel, channelKnob, previewFrame, startup>>
  /\ UNCHANGED <<handlerVars, rewriterVars, knobVars>>

\* A keydown event on the document.
KeyDown ==
  \E key \in Keys, tagName \in TagNames :
    /\ press' = IF key = " "
                THEN [by |-> "space", tagName |-> tagName, isOn |-> isOn,
                      isTransitioning |-> isTransitioning, toggled |-> FALSE]
                ELSE press
    /\ handleKeyboard(key, tagName)
    /\ UNCHANGED <<isOn, currentChannel, channelKnob, previewFrame, startup>>
    /\ UNCHANGED <<handlerVars, rewriterVars, knobVars>>

\* A click on the dark screen of the TV.
ScreenOffClick ==
  /\ IF ~isOn /\ ~isTransitioning THEN togglePower ELSE Dropped
  /\ UNCHANGED <<isOn, currentChannel, channelKnob, previewFrame, startup, press>>
  /\ UNCHANGED <<handlerVars, rewriterVars, knobVars>>

ChannelUpClick ==
  /\ IF isOn THEN nextChannel ELSE Dropped
  /\ UNCHANGED <<isOn, currentChannel, channelKnob, previewFrame, startup, press>>
  /\ UNCHANGED <<handlerVars, rewriterVars, knobVars>>

ChannelDownClick ==
  /\ IF isOn THEN prevChannel ELSE Dropped
  /\ UNCHANGED <<isOn, currentChannel, channelKnob, previewFrame, startup, press>>
  /\ UNCHANGED <<handlerVars, rewriterVars, knobVars>>

\* A wheel event on the screen, scrolling up (deltaY < 0) or down (deltaY > 0).
Wheel ==
  \E deltaY \in {-1, 0, 1} :
    /\ IF ~isOn \/ isTransitioning THEN Dropped
       ELSE IF deltaY < 0 THEN nextChannel
       ELSE IF deltaY > 0 THEN prevChannel
       ELSE Dropped
    /\ UNCHANGED <<isOn, currentChannel, channelKnob, previewFrame, startup, press>>
    /\ UNCHANGED <<handlerVars, rewriterVars, knobVars>>

minSwipeDistance == 50

\* A touch on the screen ends deltaX to the right of and deltaY below the point
\* where it started.
Swipe ==
  \E deltaX \in {-60, 60}, deltaY \in {-70, 40, 70} :
    /\ IF ~isOn THEN Dropped
       ELSE IF Abs(deltaX) > Abs(deltaY) /\ Abs(deltaX) > minSwipeDistance
            THEN (IF deltaX > 0 THEN prevChannel ELSE nextChannel)
       ELSE IF Abs(deltaY) > Abs(deltaX) /\ Abs(deltaY) > minSwipeDistance
            THEN (IF deltaY > 0 THEN prevChannel ELSE nextChannel)
       ELSE Dropped
    /\ UNCHANGED <<isOn, currentChannel, channelKnob, previewFrame, startup, press>>
    /\ UNCHANGED <<handlerVars, rewriterVars, knobVars>>

\* The positions of the pointer around a knob that the drags visit.
PointerAngles == {Degrees(-150), Degrees(-90), Degrees(90), Degrees(150)}

KnobKeys == {"ArrowUp", "ArrowDown", "ArrowLeft", "ArrowRight", "Home", "End"}

\* The onChange callback initKnobs gives the channel knob.
channelKnob_onChange(value, oldValue) ==
  IF isOn /\ value # oldValue THEN setChannel(value) ELSE Dropped

\* The onChange calls a method of the channel knob made: none, or one.
Callbacks(calls) ==
  IF calls = <<>> THEN Dropped
  ELSE channelKnob_onChange(calls[1].value, calls[1].oldValue)

\* The mouse button goes down, or a touch starts, on the channel knob, here
\* always at the same place of the knob.
KnobMouseDown ==
  \E pointerAngle \in {Degrees(150)} :
    LET called == startDrag(channelKnob, pointerAngle)
    IN /\ channelKnob' = called.knob
       /\ Callbacks(called.calls)
       /\ UNCHANGED <<isOn, currentChannel, previewFrame, startup, press>>
       /\ UNCHANGED <<handlerVars, rewriterVars, knobVars>>

\* The pointer moves while the channel knob is dragged: onMouseMove and
\* onTouchMove return unless isDragging, else updateDrag runs.
KnobTurn ==
  \E pointerAngle \in PointerAngles :
    LET called == updateDrag(channelKnob, pointerAngle)
    IN /\ channelKnob.isDragging
       /\ channelKnob' = called.knob
       /\ Callbacks(called.calls)
       /\ UNCHANGED <<isOn, currentChannel, previewFrame, startup, press>>
       /\ UNCHANGED <<handlerVars, rewriterVars, knobVars>>

\* The mouse button goes up, or the touch ends.
KnobMouseUp ==
  LET called == endDrag(channelKnob)
  IN /\ channelKnob' = called.knob
     /\ Callbacks(called.calls)
     /\ UNCHANGED <<isOn, currentChannel, previewFrame, startup, press>>
     /\ UNCHANGED <<handlerVars, rewriterVars, knobVars>>

\* A key goes down with the focus on the channel knob.  The knob's listener
\* runs first and the event then bubbles to the document, where handleKeyboard
\* runs: when the knob's callback has started a channel change, handleKeyboard
\* finds isTransitioning set and its own channel change is dropped; otherwise
\* the callback changed nothing and handleKeyboard acts on the TV as it is.
KnobKeyDown ==
  \E key \in KnobKeys :
    LET called == onKeyDown(channelKnob, key)
        started == /\ called.calls # <<>>
                   /\ isOn /\ ~isTransitioning
                   /\ called.calls[1].value # currentChannel
    IN /\ channelKnob' = called.knob
       /\ IF started THEN Callbacks(called.calls) ELSE handleKeyboard(key, "DIV")
       /\ UNCHANGED <<isOn, currentChannel, previewFrame, startup, press>>
       /\ UNCHANGED <<handlerVars, rewriterVars, knobVars>>

\* The timer of RetroTVApp.setup fires, 500 ms after the page was set up.
AutoPowerOn ==
  /\ startup
  /\ startup' = FALSE
  /\ powerOnSilent
  /\ UNCHANGED <<isOn, currentChannel, channelKnob, previewFrame, press>>
  /\ UNCHANGED <<handlerVars, rewriterVars, knobVars>>

Without(seq, i) == SubSeq(seq, 1, i - 1) \o SubSeq(seq, i + 1, Len(seq))

\* powerOn or powerOnSilent continues after delay(800), then after delay(1000).
PowerOnResume(i) ==
  /\ running[i].op \in {"powerOn", "powerOnSilent"}
  /\ \/ /\ running[i].at = "warmup"
        /\ isOn' = TRUE
        /\ previewFrame' = updateDisplay(currentChannel)
        /\ running' = [running EXCEPT ![i].at = "fade"]
        /\ press' = pressAfter(TRUE)
        /\ staticEffect' = IF running[i].op = "powerOn" THEN stop(staticEffect)
                           ELSE stopSilent(staticEffect)
        /\ UNCHANGED isTransitioning
     \/ /\ running[i].at = "fade"
        /\ isTransitioning' = FALSE
        /\ running' = Without(running, i)
        /\ UNCHANGED <<isOn, previewFrame, press, staticEffect>>
  /\ UNCHANGED <<currentChannel, channelKnob, startup>>
  /\ UNCHANGED <<handlerVars, rewriterVars, knobVars>>

\* powerOff continues after delay(500).
PowerOffResume(i) ==
  /\ running[i].op = "powerOff"
  /\ isOn' = FALSE
  /\ isTransitioning' = FALSE
  /\ running' = Without(running, i)
  /\ press' = pressAfter(FALSE)
  /\ UNCHANGED <<currentChannel, channelKnob, previewFrame, startup, staticEffect>>
  /\ UNCHANGED <<handlerVars, rewriterVars, knobVars>>

SetChannelResume_StaysBusy(i) ==
  /\ running[i].op = "setChannel"
  /\ currentChannel' = running[i].channel
  /\ previewFrame' = updateDisplay(running[i].channel)
  /\ channelKnob' = setValue(channelKnob, running[i].channel, FALSE).knob
  /\ staticEffect' = stop(staticEffect)
  /\ running' = Without(running, i)
  /\ UNCHANGED <<isOn, isTransitioning, startup, press>>
  /\ UNCHANGED <<handlerVars, rewriterVars, knobVars>>

\* The 400 ms timer of the burst fires: it stops the static and resolves the
\* burst, and with it the race of playTransition, whose continuation and then
\* setChannel's run as microtasks of the same task.  The 500 ms timer of the race
\* is set after the burst's timer and for a later time, so it fires after it, on
\* a race that is settled, and changes nothing.
SetChannelResume(i) ==
  /\ running[i].op = "setChannel"
  /\ staticEffect' = stop(staticEffect)
  /\ currentChannel' = running[i].channel
  /\ previewFrame' = updateDisplay(running[i].channel)
  /\ channelKnob' = setValue(channelKnob, running[i].channel, FALSE).knob
  /\ isTransitioning' = FALSE
  /\ running' = Without(running, i)
  /\ UNCHANGED <<isOn, startup, press>>
  /\ UNCHANGED <<handlerVars, rewriterVars, knobVars>>

\* The browser runs a requested animation frame: the callback calls animate.
AnimationFrame ==
  \E id \in staticEffect.requested, due \in BOOLEAN :
    /\ staticEffect' = animate([staticEffect EXCEPT !.requested = @ \ {id}], due)
    /\ UNCHANGED <<isOn, isTransitioning, currentChannel, channelKnob, previewFrame,
                   running, startup, press>>
    /\ UNCHANGED <<handlerVars, rewriterVars, knobVars>>

Resume ==
  \E i \in DOMAIN running :
    \/ PowerOnResume(i)
    \/ PowerOffResume(i)
    \/ SetChannelResume(i)

TVNext ==
  \/ PowerButtonClick
  \/ KeyDown
  \/ ScreenOffClick
  \/ ChannelUpClick
  \/ ChannelDownClick
  \/ Wheel
  \/ Swipe
  \/ KnobMouseDown
  \/ KnobTurn
  \/ KnobMouseUp
  \/ KnobKeyDown
  \/ AutoPowerOn
  \/ AnimationFrame
  \/ Resume

SpecTV == Init /\ [][TVNext]_vars

\* Timers fire: a suspended operation continues, and the auto power-on runs.
SpecTVLive ==
  /\ Init
  /\ [][TVNext]_vars
  /\ WF_vars(AutoPowerOn)
  /\ WF_vars(Resume)

(***************************************************************************)
(* The knob harness: one KnobControl, built as initKnobs builds the        *)
(* channel knob or the volume knob, whose onChange records its arguments.  *)
(* Its methods are called in any order with values and pointer positions   *)
(* from small sets.                                                        *)
(***************************************************************************)
KnobInit ==
  /\ HandlerInit
  /\ RewriterIdle
  /\ TVConstructed
  /\ knob \in {KnobHarness("channelKnob", 1), KnobHarness("volumeKnob", 50)}

\* The harness after the method ran and left called.
Ran(method, called) ==
  [control |-> called.knob, by |-> method, called |-> called.calls]

\* The values setValue is called with: below, at, inside, at and above the range.
ValuesSet(k) ==
  {Options(k).minValue - Options(k).step, Options(k).minValue,
   Options(k).minValue + (2 * Options(k).step),
   Options(k).maxValue, Options(k).maxValue + Options(k).step}

HarnessSetValue ==
  \E value \in ValuesSet(knob.control) :
    /\ knob' = Ran("setValue(v)", setValue(knob.control, value, TRUE))
    /\ UNCHANGED <<handlerVars, rewriterVars, tvVars>>

HarnessSetValueSilent ==
  \E value \in ValuesSet(knob.control) :
    /\ knob' = Ran("setValue(v, false)", setValue(knob.control, value, FALSE))
    /\ UNCHANGED <<handlerVars, rewriterVars, tvVars>>

HarnessMouseDown ==
  \E pointerAngle \in PointerAngles :
    /\ knob' = Ran("startDrag", startDrag(knob.control, pointerAngle))
    /\ UNCHANGED <<handlerVars, rewriterVars, tvVars>>

HarnessMouseMove ==
  \E pointerAngle \in PointerAngles :
    /\ knob.control.isDragging
    /\ knob' = Ran("updateDrag", updateDrag(knob.control, pointerAngle))
    /\ UNCHANGED <<handlerVars, rewriterVars, tvVars>>

HarnessMouseUp ==
  /\ knob' = Ran("endDrag", endDrag(knob.control))
  /\ UNCHANGED <<handlerVars, rewriterVars, tvVars>>

HarnessKeyDown ==
  \E key \in KnobKeys :
    /\ knob' = Ran("onKeyDown", onKeyDown(knob.control, key))
    /\ UNCHANGED <<handlerVars, rewriterVars, tvVars>>

KnobNext ==
  \/ HarnessSetValue
  \/ HarnessSetValueSilent
  \/ HarnessMouseDown
  \/ HarnessMouseMove
  \/ HarnessMouseUp
  \/ HarnessKeyDown

SpecKnob == KnobInit /\ [][KnobNext]_vars

(***************************************************************************)
(* Properties of the request handler (checked under Spec)                  *)
(***************************************************************************)
Arrived(r) == req[r] # NoRequest

Done(r) == pc[r] = "done"

\* The url parameter of the request in slot r, as the handler decodes it.
UrlParam(r) == searchParamsGet(req[r].query, <<"u", "r", "l">>)

NoUrlParam(r) == UrlParam(r) \in {Null, <<>>}

GotUpstream(r) == upstream[r] # NoResponse

\* The Content-Type value of the upstream response, "" when there is none.
UpstreamContentType(r) ==
  LET v == HeadersGet(upstream[r].headers, <<"c", "o", "n", "t", "e", "n", "t", "-", "t", "y", "p", "e">>)
  IN IF v = Null THEN <<>> ELSE v

FramingHeaders ==
  {<<"x", "-", "f", "r", "a", "m", "e", "-", "o", "p", "t", "i", "o", "n", "s">>, <<"c", "o", "n", "t", "e", "n", "t", "-", "s", "e", "c", "u", "r", "i", "t", "y", "-", "p", "o", "l", "i", "c", "y">>,
   <<"c", "o", "n", "t", "e", "n", "t", "-", "s", "e", "c", "u", "r", "i", "t", "y", "-", "p", "o", "l", "i", "c", "y", "-", "r", "e", "p", "o", "r", "t", "-", "o", "n", "l", "y">>}

HasCors(response) ==
  /\ HeadersGet(response.headers, <<"A", "c", "c", "e", "s", "s", "-", "C", "o", "n", "t", "r", "o", "l", "-", "A", "l", "l", "o", "w", "-", "O", "r", "i", "g", "i", "n">>) = <<"*">>
  /\ HeadersGet(response.headers, <<"A", "c", "c", "e", "s", "s", "-", "C", "o", "n", "t", "r", "o", "l", "-", "A", "l", "l", "o", "w", "-", "M", "e", "t", "h", "o", "d", "s">>) = <<"G", "E", "T", ",", " ", "O", "P", "T", "I", "O", "N", "S">>
  /\ HeadersGet(response.headers, <<"A", "c", "c", "e", "s", "s", "-", "C", "o", "n", "t", "r", "o", "l", "-", "A", "l", "l", "o", "w", "-", "H", "e", "a", "d", "e", "r", "s">>) = <<"*">>

ErrorResponse(status, body) == [status |-> status, headers |-> corsHeaders, body |-> body]

ProxyError(message) == ErrorResponse(500, <<"P", "r", "o", "x", "y", " ", "e", "r", "r", "o", "r", ":", " ">> \o message)

MissingUrl == ErrorResponse(400, <<"M", "i", "s", "s", "i", "n", "g", " ", "u", "r", "l", " ", "p", "a", "r", "a", "m", "e", "t", "e", "r">>)

IsErrorBody(body) ==
  body # Null /\ (body = <<"M", "i", "s", "s", "i", "n", "g", " ", "u", "r", "l", " ", "p", "a", "r", "a", "m", "e", "t", "e", "r">> \/ startsWith(body, <<"P", "r", "o", "x", "y", " ", "e", "r", "r", "o", "r", ":", " ">>))

\* C1: no response to a proxied request (HTML, CSS or passthrough branch, or the
\* error that replaces it) has a header named X-Frame-Options,
\* Content-Security-Policy or Content-Security-Policy-Report-Only, in any letter
\* case, whatever the case of the names the upstream sent.
C1_NoFramingHeaders ==
  \A r \in Slots : \A i \in 1..Len(responses[r]) :
    \A name \in HeadersNames(responses[r][i].headers) :
      toLowerCase(name) \notin FramingHeaders

\* C1 witness: a passthrough response was returned with the upstream's status for
\* an upstream that sent CONTENT-SECURITY-POLICY-REPORT-ONLY and x-frame-options.
C1_Witness ==
  \E r \in Slots :
    /\ Done(r) /\ GotUpstream(r) /\ branch[r] = "passthrough"
    /\ FramingHeaders \cap HeadersNames(upstream[r].headers) # {}
    /\ <<"c", "o", "n", "t", "e", "n", "t", "-", "s", "e", "c", "u", "r", "i", "t", "y", "-", "p", "o", "l", "i", "c", "y", "-", "r", "e", "p", "o", "r", "t", "-", "o", "n", "l", "y">> \in HeadersNames(upstream[r].headers)
    /\ Len(responses[r]) = 1 /\ responses[r][1].status = upstream[r].status

\* C2: every response the handler returns (preflight, 400, 500, HTML, CSS,
\* passthrough) has Access-Control-Allow-Origin with the single value "*", also
\* when the upstream sent another Access-Control-Allow-Origin.
C2_AllowOriginOnEveryResponse ==
  \A r \in Slots :
    /\ \A i \in 1..Len(responses[r]) :
         HeadersGet(responses[r][i].headers, AccessControlAllowOrigin) = <<"*">>
    /\ Done(r) => responses[r] # <<>>

\* C2 witness: a rewritten HTML response was returned with the upstream's status
\* for an upstream that sent Access-Control-Allow-Origin: https://e.com.
C2_Witness ==
  \E r \in Slots :
    /\ Done(r) /\ GotUpstream(r) /\ branch[r] = "html"
    /\ HeadersGet(upstream[r].headers, AccessControlAllowOrigin) = <<"h", "t", "t", "p", "s", ":", "/", "/", "e", ".", "c", "o", "m">>
    /\ Len(responses[r]) = 1 /\ responses[r][1].status = upstream[r].status

\* C3: an OPTIONS request is answered at once, whatever its url parameter: status
\* 200 or 204, no body, the three CORS headers and no others, and no upstream
\* fetch was issued for it.
C3_PreflightAnsweredWithoutFetch ==
  \A r \in Slots :
    (Arrived(r) /\ req[r].method = "OPTIONS") =>
      /\ Done(r)
      /\ fetches[r] = <<>>
      /\ faults[r] = <<>>
      /\ Len(responses[r]) = 1
      /\ responses[r][1].status \in {200, 204}
      /\ responses[r][1].body = Null
      /\ HasCors(responses[r][1])
      /\ Cardinality(HeadersNames(responses[r][1].headers)) = 3

\* C3 witness: an OPTIONS request whose url parameter is a fetchable absolute URL
\* has been answered.
C3_Witness ==
  \E r \in Slots :
    /\ Done(r) /\ req[r].method = "OPTIONS"
    /\ ~NoUrlParam(r) /\ parseURL(UrlParam(r)).ok

\* C4 as stated: a request with no url parameter (missing or empty) gets status
\* 400 with the body "Missing url parameter" and the CORS headers, and no upstream
\* fetch is issued.
C4_AsStated ==
  \A r \in Slots :
    (Arrived(r) /\ NoUrlParam(r)) =>
      /\ Done(r)
      /\ fetches[r] = <<>>
      /\ responses[r] = <<MissingUrl>>

\* C4 amended: a request whose method is not OPTIONS and that has no url parameter
\* (missing or empty) gets status 400 with the body "Missing url parameter" and
\* the CORS headers, and no upstream fetch is issued.
C4_MissingUrlIs400 ==
  \A r \in Slots :
    (Arrived(r) /\ req[r].method # "OPTIONS" /\ NoUrlParam(r)) =>
      /\ Done(r)
      /\ fetches[r] = <<>>
      /\ faults[r] = <<>>
      /\ responses[r] = <<MissingUrl>>
      /\ HasCors(responses[r][1])

\* C4 witness: a GET request with an empty url parameter (url=) got the 400.
C4_Witness ==
  \E r \in Slots :
    /\ Done(r) /\ req[r].method = "GET" /\ UrlParam(r) = <<>>
    /\ responses[r] = <<MissingUrl>>

\* C5 as stated: a url parameter that is present but is no absolute URL gets
\* status 500 with the body "Proxy error: <message>" and the CORS headers without
\* any upstream fetch, and so does a request whose upstream fetch, or the reading
\* of its body, throws.
C5_AsStated ==
  \A r \in Slots :
    /\ (Arrived(r) /\ ~NoUrlParam(r) /\ ~parseURL(UrlParam(r)).ok) =>
         /\ Done(r)
         /\ fetches[r] = <<>>
         /\ responses[r] = <<ProxyError(InvalidUrlMessage)>>
    /\ (Done(r) /\ fetches[r] # <<>> /\ thrown[r] # <<>>) =>
         responses[r] = <<ProxyError(thrown[r][1])>>

\* C5 amended: for a request whose method is not OPTIONS, a url parameter that is
\* present but is no absolute URL gets status 500 with the body
\* "Proxy error: <message>" and the CORS headers without any upstream fetch; and
\* a request whose upstream fetch, or the reading of its body, throws gets status
\* 500 with the body "Proxy error: <message of that exception>" and the CORS
\* headers.
C5_FailuresAre500 ==
  \A r \in Slots :
    /\ (Arrived(r) /\ req[r].method # "OPTIONS" /\ ~NoUrlParam(r)
        /\ ~parseURL(UrlParam(r)).ok) =>
         /\ Done(r)
         /\ fetches[r] = <<>>
         /\ responses[r] = <<ProxyError(InvalidUrlMessage)>>
         /\ HasCors(responses[r][1])
    /\ (Done(r) /\ fetches[r] # <<>> /\ thrown[r] # <<>>) =>
         /\ responses[r] = <<ProxyError(thrown[r][1])>>
         /\ HasCors(responses[r][1])

\* C5 witness: a GET request whose url parameter is the relative reference /page
\* got the 500 and no fetch was issued.
C5_Witness ==
  \E r \in Slots :
    /\ Done(r) /\ req[r].method = "GET" /\ UrlParam(r) = <<"/", "p", "a", "g", "e">>
    /\ fetches[r] = <<>>
    /\ responses[r] = <<ProxyError(InvalidUrlMessage)>>

\* The body of the full response to the request in slot r: the upstream body,
\* rewritten in the HTML and CSS branches.
FullBody(r) ==
  IF upstream[r].status \in NullBodyStatuses THEN Null
  ELSE IF branch[r] = "html" THEN rewriteHtml(textOf(upstream[r]), baseUrl[r])
  ELSE IF branch[r] = "css" THEN rewriteCss(textOf(upstream[r]), baseUrl[r])
  ELSE upstream[r].body

\* C6: a request whose handling finished has exactly one response and an
\* unfinished one has none; no exception leaves the handler; the response of a
\* non-OPTIONS request is either the full upstream response (upstream status, the
\* body of its branch) or one error response (400 or 500 with an error body); and
\* an error body never comes with another status.
C6_OneResponseNoFault ==
  \A r \in Slots :
    /\ faults[r] = <<>>
    /\ Len(responses[r]) = (IF Done(r) THEN 1 ELSE 0)
    /\ (Done(r) /\ req[r].method # "OPTIONS") =>
         LET response == responses[r][1]
         IN /\ \/ /\ GotUpstream(r) /\ thrown[r] = <<>>
                  /\ response.status = upstream[r].status
                  /\ response.body = FullBody(r)
                  /\ ~IsErrorBody(response.body)
               \/ /\ response.status \in {400, 500}
                  /\ IsErrorBody(response.body)
                  /\ response.status = 500 => thrown[r] # <<>>
            /\ IsErrorBody(response.body) => response.status \in {400, 500}

\* C6 witness: the upstream answered 200 with an HTML body, reading the body then
\* failed, and the request ended with the single 500 response.
C6_Witness ==
  \E r \in Slots :
    /\ Done(r) /\ GotUpstream(r) /\ upstream[r].status = 200 /\ branch[r] = "html"
    /\ thrown[r] = <<BodyReadMessage>>
    /\ responses[r] = <<ProxyError(BodyReadMessage)>>

\* C7 as stated: whenever the upstream fetch returned a response (and its body
\* could be read), the outbound response has the upstream's status code, in the
\* HTML, CSS and passthrough branches and for every upstream status.
C7_AsStated ==
  \A r \in Slots :
    (Done(r) /\ GotUpstream(r) /\ thrown[r] # <<BodyReadMessage>>) =>
      /\ Len(responses[r]) = 1
      /\ responses[r][1].status = upstream[r].status

\* C8 as stated: the Content-Type value is compared lower-cased; a value that
\* contains text/html in any letter case goes to the HTML rewriter, and one that
\* contains text/css (and not text/html) in any letter case to the CSS rewriter.
C8_AsStated ==
  \A r \in Slots :
    GotUpstream(r) =>
      LET lowered == toLowerCase(UpstreamContentType(r))
      IN /\ includes(lowered, <<"t", "e", "x", "t", "/", "h", "t", "m", "l">>) => branch[r] = "html"
         /\ (includes(lowered, <<"t", "e", "x", "t", "/", "c", "s", "s">>) /\ ~includes(lowered, <<"t", "e", "x", "t", "/", "h", "t", "m", "l">>))
              => branch[r] = "css"

\* C9 as stated: for an upstream response whose Content-Type contains neither
\* text/html nor text/css (or that has no Content-Type), the outbound body is the
\* upstream body, unchanged.
C9_AsStated ==
  \A r \in Slots :
    (Done(r) /\ GotUpstream(r)
     /\ ~includes(toLowerCase(UpstreamContentType(r)), <<"t", "e", "x", "t", "/", "h", "t", "m", "l">>)
     /\ ~includes(toLowerCase(UpstreamContentType(r)), <<"t", "e", "x", "t", "/", "c", "s", "s">>)) =>
      /\ Len(responses[r]) = 1
      /\ responses[r][1].body = upstream[r].body

(***************************************************************************)
(* Properties of the rewriters (checked under SpecRewrite)                 *)
(***************************************************************************)
ExemptReference(url) ==
  \/ startsWith(url, <<"d", "a", "t", "a", ":">>)
  \/ startsWith(url, <<"j", "a", "v", "a", "s", "c", "r", "i", "p", "t", ":">>)
  \/ startsWith(url, <<"#">>)

\* The URL of one srcset candidate: its first white-space separated token.
CandidateUrl(part) == splitSpaces(trim(part))[1]

\* Every src/href value and every srcset candidate of text is exempt.
AllHtmlReferencesExempt(text) ==
  \A j \in 1..Len(text) :
    /\ attrMatch(text, j, SrcHref).ok => ExemptReference(attrMatch(text, j, SrcHref).url)
    /\ attrMatch(text, j, {<<"s", "r", "c", "s", "e", "t">>}).ok =>
         LET parts == split(attrMatch(text, j, {<<"s", "r", "c", "s", "e", "t">>}).url, ",")
         IN \A k \in 1..Len(parts) : ExemptReference(CandidateUrl(parts[k]))

\* Every url() argument of text is exempt.
AllCssReferencesExempt(text) ==
  \A j \in 1..Len(text) : cssMatch(text, j).ok => ExemptReference(cssMatch(text, j).url)

\* C10 as stated: references that begin with data:, javascript: or # are left as
\* they were, so a document all of whose src/href values and srcset candidates
\* are such references leaves rewriteHtml unchanged but for the injected script,
\* and a stylesheet all of whose url() arguments are such references leaves
\* rewriteCss unchanged.
C10_AsStated ==
  /\ (output.by = "html" /\ AllHtmlReferencesExempt(input.text)) =>
       output.text = injectFixScript(input.text)
  /\ (output.by = "css" /\ AllCssReferencesExempt(input.text)) =>
       output.text = input.text

(***************************************************************************)
(* Properties of proxyUrl and of the round trip (checked under SpecResolve)*)
(***************************************************************************)
Resolved == output.by = "proxyUrl"

\* C11 as stated: for every absolute URL u, of any scheme and in any letter case
\* of the scheme, and every base origin, proxyUrl(u, base) is the proxy endpoint
\* wrapping u itself.
C11_AsStated ==
  (Resolved /\ parseURL(input.text).ok) => output.text = proxyEndpoint(input.text)

\* C12: proxyUrl resolves by priority: a reference starting with // becomes
\* https: + reference whatever the scheme of the base origin, otherwise one
\* starting with / becomes base + reference, otherwise one starting with the
\* literal prefix http is used as it is, otherwise the result is
\* base + "/" + reference; the resolved URL is percent-encoded into the url
\* parameter of the proxy endpoint (/p and img.png with base https://e.com give
\* <proxy>/?url=https%3A%2F%2Fe.com%2Fp and <proxy>/?url=https%3A%2F%2Fe.com%2Fimg.png).
C12_ResolvedByPriority ==
  Resolved =>
    LET u == input.text
        b == input.base
        doubleSlash == startsWith(u, <<"/", "/">>)
        slash == startsWith(u, <<"/">>)
        http == startsWith(u, <<"h", "t", "t", "p">>)
    IN /\ doubleSlash => output.text = proxyEndpoint(<<"h", "t", "t", "p", "s", ":">> \o u)
       /\ (slash /\ ~doubleSlash) => output.text = proxyEndpoint(b \o u)
       /\ (http /\ ~slash) => output.text = proxyEndpoint(u)
       /\ (~http /\ ~slash) => output.text = proxyEndpoint(b \o <<"/">> \o u)
       /\ (u = <<"/", "p">> /\ b = <<"h", "t", "t", "p", "s", ":", "/", "/", "e", ".", "c", "o", "m">>) =>
            output.text = PROXY_URL \o <<"/", "?", "u", "r", "l", "=", "h", "t", "t", "p", "s", "%", "3", "A", "%", "2", "F", "%", "2", "F", "e", ".", "c", "o", "m", "%", "2", "F", "p">>
       /\ (u = <<"i", "m", "g", ".", "p", "n", "g">> /\ b = <<"h", "t", "t", "p", "s", ":", "/", "/", "e", ".", "c", "o", "m">>) =>
            output.text = PROXY_URL \o <<"/", "?", "u", "r", "l", "=", "h", "t", "t", "p", "s", "%", "3", "A", "%", "2", "F", "%", "2", "F", "e", ".", "c", "o", "m", "%", "2", "F", "i", "m", "g", ".", "p", "n", "g">>

\* C12 witness: //cdn.e.com/x was resolved against the base http://e.com:8080 and
\* came out as https://cdn.e.com/x, percent-encoded, behind the proxy endpoint.
C12_Witness ==
  /\ Resolved
  /\ input = [text |-> <<"/", "/", "c", "d", "n", ".", "e", ".", "c", "o", "m", "/", "x">>, base |-> <<"h", "t", "t", "p", ":", "/", "/", "e", ".", "c", "o", "m", ":", "8", "0", "8", "0">>]
  /\ output.text = PROXY_URL \o <<"/", "?", "u", "r", "l", "=", "h", "t", "t", "p", "s", "%", "3", "A", "%", "2", "F", "%", "2", "F", "c", "d", "n", ".", "e", ".", "c", "o", "m", "%", "2", "F", "x">>

\* Percent-encoded text: unreserved characters and %XX escapes only.
PercentEncoded(t) ==
  \A i \in 1..Len(t) :
    \/ t[i] \in Letters \cup Digits \cup UnreservedMarks
    \/ /\ t[i] = "%"
       /\ i + 2 <= Len(t)
       /\ {t[i + 1], t[i + 2]} \subseteq Digits \cup {"A", "B", "C", "D", "E", "F"}

C14_AsStated ==
  \A r \in Slots :
    (Resolved /\ Arrived(r)) =>
      /\ UrlParam(r) = absolute(input.text, input.base)
      /\ Len(fetches[r]) = 1
      /\ fetches[r][1].url = absolute(input.text, input.base)

\* The places of text where the attribute pattern matches and that do not lie
\* inside an earlier match: the occurrences of name="value" or name='value'.
AttrOccurrences(text, names) ==
  LET at == {j \in 1..Len(text) : attrMatch(text, j, names).ok}
  IN {j \in at : \A k \in at : ~(k < j /\ j < k + attrMatch(text, k, names).len)}

\* text with the len(j) characters from each place j of starts on replaced by
\* with(j), and every other character kept.
Replaced(text, starts, len(_), with(_)) ==
  LET covered == UNION {(j + 1)..(j + len(j) - 1) : j \in starts}
  IN concat([i \in 1..Len(text) |->
               IF i \in starts THEN with(i)
               ELSE IF i \in covered THEN <<>>
               ELSE <<text[i]>>])

\* text with the value of every src/href occurrence that is not exempt replaced by
\* its proxied URL; requote tells whether the value's quotes become double quotes
\* or stay as written.
SrcHrefReplaced(text, base, requote) ==
  Replaced(text, AttrOccurrences(text, SrcHref),
           LAMBDA j : attrMatch(text, j, SrcHref).len,
           LAMBDA j :
             LET m == attrMatch(text, j, SrcHref)
                 opening == IF requote THEN "\"" ELSE text[j + Len(m.attr) + 1]
                 closing == IF requote THEN "\"" ELSE text[j + m.len - 1]
             IN IF ExemptReference(m.url) THEN SubSeq(text, j, j + m.len - 1)
                ELSE m.attr \o <<"=", opening>> \o proxyUrl(m.url, base) \o <<closing>>)

Ascending(S) ==
  [k \in 1..Cardinality(S) |-> CHOOSE x \in S : Cardinality({y \in S : y < x}) = k - 1]

\* The values of the srcset attributes of text, in their order.
SrcsetValues(text) ==
  LET at == Ascending(AttrOccurrences(text, {<<"s", "r", "c", "s", "e", "t">>}))
  IN [k \in 1..Len(at) |-> attrMatch(text, at[k], {<<"s", "r", "c", "s", "e", "t">>}).url]

CommaCount(s) == Cardinality({i \in 1..Len(s) : s[i] = ","})

\* One candidate as C16 states it: the proxied URL of the candidate's URL (its
\* first token), followed by its descriptor (its second token) when it has one.
CandidateRewritten(part, base) ==
  LET tokens == splitSpaces(trim(part))
  IN IF Len(tokens) >= 2 THEN proxyUrl(tokens[1], base) \o <<" ">> \o tokens[2]
     ELSE proxyUrl(tokens[1], base)

\* C16: the srcset rewrite keeps the number of candidates and of commas and each
\* candidate's descriptor: every srcset value comes out as one candidate per
\* comma-separated input candidate, each being the proxied URL of the candidate's
\* URL followed by that candidate's descriptor, joined by ", ".
C16_SrcsetCandidatesKept ==
  output.by = "html" =>
    LET before == SrcsetValues(input.text)
        after == SrcsetValues(output.text)
    IN /\ Len(after) = Len(before)
       /\ \A k \in 1..Len(before) :
            LET parts == split(before[k], ",")
            IN /\ CommaCount(after[k]) = CommaCount(before[k])
               /\ Len(split(after[k], ",")) = Len(parts)
               /\ after[k] = join([c \in 1..Len(parts) |-> CandidateRewritten(parts[c], input.base)], <<",", " ">>)

\* C16 witness: srcset="a.png 1x, b.png 2x" was rewritten against https://e.com
\* into the two proxied candidates with their descriptors 1x and 2x.
C16_Witness ==
  /\ output.by = "html"
  /\ input = [text |-> <<"<", "i", "m", "g", " ", "s", "r", "c", "s", "e", "t", "=", "\"", "a", ".", "p", "n", "g", " ", "1", "x", ",", " ", "b", ".", "p", "n", "g", " ", "2", "x", "\"", ">">>, base |-> <<"h", "t", "t", "p", "s", ":", "/", "/", "e", ".", "c", "o", "m">>]
  /\ output.text = <<"<", "i", "m", "g", " ", "s", "r", "c", "s", "e", "t", "=", "\"">> \o PROXY_URL \o <<"/", "?", "u", "r", "l", "=", "h", "t", "t", "p", "s", "%", "3", "A", "%", "2", "F", "%", "2", "F", "e", ".", "c", "o", "m", "%", "2", "F", "a", ".", "p", "n", "g", " ", "1", "x", ",", " ">>
                   \o PROXY_URL \o <<"/", "?", "u", "r", "l", "=", "h", "t", "t", "p", "s", "%", "3", "A", "%", "2", "F", "%", "2", "F", "e", ".", "c", "o", "m", "%", "2", "F", "b", ".", "p", "n", "g", " ", "2", "x", "\"", ">">>

(***************************************************************************)
(* Properties of rewriteCss (checked under SpecRewrite)                    *)
(***************************************************************************)
\* The places of text where a url(...) token starts and that do not lie inside an
\* earlier token.
CssOccurrences(text) ==
  LET at == {j \in 1..Len(text) : cssMatch(text, j).ok}
  IN {j \in at : \A k \in at : ~(k < j /\ j < k + cssMatch(text, k).len)}

\* C17: rewriteCss turns every url(...) token (unquoted, single-quoted or
\* double-quoted, function name in any letter case) whose argument does not start
\* with data: into url("<proxyUrl(argument, base)>") with double quotes, and
\* leaves the data: tokens and all other text of the stylesheet unchanged;
\* background:url(/bg.png) with base https://e.com becomes
\* background:url("<proxy>/?url=https%3A%2F%2Fe.com%2Fbg.png").
C17_CssUrlsRewritten ==
  output.by = "css" =>
    output.text =
      Replaced(input.text, CssOccurrences(input.text),
               LAMBDA j : cssMatch(input.text, j).len,
               LAMBDA j :
                 LET m == cssMatch(input.text, j)
                 IN IF startsWith(m.url, <<"d", "a", "t", "a", ":">>) THEN SubSeq(input.text, j, j + m.len - 1)
                    ELSE <<"u", "r", "l", "(", "\"">> \o proxyUrl(m.url, input.base) \o <<"\"", ")">>)

\* C17 witness: the stylesheet url(/bg.png)URL('data:x') was rewritten against
\* https://e.com: the first token is proxied and double-quoted, the data: token is
\* as it was.
C17_Witness ==
  /\ output.by = "css"
  /\ input = [text |-> <<"u", "r", "l", "(", "/", "b", "g", ".", "p", "n", "g", ")", "U", "R", "L", "(", "'", "d", "a", "t", "a", ":", "x", "'", ")">>, base |-> <<"h", "t", "t", "p", "s", ":", "/", "/", "e", ".", "c", "o", "m">>]
  /\ output.text = <<"u", "r", "l", "(", "\"">> \o PROXY_URL \o <<"/", "?", "u", "r", "l", "=", "h", "t", "t", "p", "s", "%", "3", "A", "%", "2", "F", "%", "2", "F", "e", ".", "c", "o", "m", "%", "2", "F", "b", "g", ".", "p", "n", "g", "\"", ")", "U", "R", "L", "(", "'", "d", "a", "t", "a", ":", "x", "'", ")">>

(***************************************************************************)
(* Properties of the shim injection (checked under SpecRewrite)            *)
(***************************************************************************)
\* The places of text where the string p occurs.
Occurs(text, p) == {i \in 1..(Len(text) - Len(p) + 1) : SubSeq(text, i, i + Len(p) - 1) = p}

\* C18: rewriteHtml inserts the shim script exactly once, immediately after the
\* first <head> of the document, or after the first <HEAD> when the document has
\* no <head>; a document with neither comes back with no shim anywhere.
C18_ShimOnceAfterHead ==
  output.by = "html" =>
    LET document == replaceSrcset(replaceSrcHref(input.text, 1, input.base), 1, input.base)
        lower == Occurs(document, <<"<", "h", "e", "a", "d", ">">>)
        upper == Occurs(document, <<"<", "H", "E", "A", "D", ">">>)
        tagEnd == IF lower # {} THEN Min(lower) + 5 ELSE Min(upper) + 5
    IN /\ (lower = {} /\ upper = {}) <=>
            (Occurs(input.text, <<"<", "h", "e", "a", "d", ">">>) = {} /\ Occurs(input.text, <<"<", "H", "E", "A", "D", ">">>) = {})
       /\ IF lower = {} /\ upper = {}
          THEN /\ output.text = document
               /\ Occurs(output.text, fixScript) = {}
          ELSE /\ output.text = SubSeq(document, 1, tagEnd) \o fixScript
                                \o SubSeq(document, tagEnd + 1, Len(document))
               /\ Occurs(output.text, fixScript) = {tagEnd + 1}

\* C18 witness: the document <HEAD><head> was rewritten: the shim follows the
\* <head>, and it is there once.
C18_Witness ==
  /\ output.by = "html"
  /\ input.text = <<"<", "H", "E", "A", "D", ">", "<", "h", "e", "a", "d", ">">>
  /\ output.text = <<"<", "H", "E", "A", "D", ">", "<", "h", "e", "a", "d", ">">> \o fixScript

(***************************************************************************)
(* Properties of the header sanitization (checked under Spec)              *)
(***************************************************************************)
\* C19 as stated: on a response built from the upstream's, every upstream header
\* other than the three stripped ones and Access-Control-Allow-Origin is there
\* under the same name with the same value(s), none lost, also when the upstream
\* sent the name more than once.
C19_AsStated ==
  \A r \in Slots :
    (Done(r) /\ GotUpstream(r) /\ thrown[r] = <<>>) =>
      \A name \in HeadersNames(upstream[r].headers) \ (FramingHeaders \cup {toLowerCase(AccessControlAllowOrigin)}) :
        HeadersGet(responses[r][1].headers, name) = HeadersGet(upstream[r].headers, name)

(***************************************************************************)
(* Independence of concurrently handled requests (checked under SpecConc)  *)
(***************************************************************************)
\* The origin of the url parameter of the request in slot r.
OwnBase(r) ==
  LET target == parseURL(UrlParam(r))
  IN target.protocol \o <<"/", "/">> \o target.host

\* The response to the request in slot r as its own request, the upstream
\* response to its own fetch and the failure of its own fetch or body read
\* determine it.
OwnResponse(r) ==
  IF req[r].method = "OPTIONS" THEN [status |-> 200, headers |-> corsHeaders, body |-> Null]
  ELSE IF NoUrlParam(r) THEN MissingUrl
  ELSE IF thrown[r] # <<>> THEN ProxyError(thrown[r][1])
  ELSE LET to == classify(UpstreamContentType(r))
       IN [status |-> upstream[r].status,
           headers |-> cleanHeaders(upstream[r].headers),
           body |-> IF to = "passthrough" THEN upstream[r].body
                    ELSE rewritten(to, textOf(upstream[r]), OwnBase(r))]

\* All the state of the handler call in slot r.
SlotState(r) ==
  <<req[r], pc[r], fetches[r], upstream[r], baseUrl[r], newHeaders[r], branch[r],
    thrown[r], responses[r], faults[r]>>

\* C20: requests are independent.  Under any interleaving of two concurrently
\* handled requests, what a handler call holds between its awaits (the URL it
\* fetches, its base origin, its sanitized headers) and the response it returns
\* are determined by its own request and by the upstream response to its own
\* fetch; and a step of one call changes no state of the other call.
C20_RequestsIndependent ==
  /\ [](\A r \in ConcSlots :
          /\ faults[r] = <<>>
          /\ responses[r] = (IF Done(r) THEN <<OwnResponse(r)>> ELSE <<>>)
          /\ pc[r] \in {"fetching", "reading"} =>
               /\ fetches[r] = <<[url |-> UrlParam(r), headers |-> fetchInit(req[r])]>>
               /\ baseUrl[r] = OwnBase(r)
          /\ pc[r] = "reading" =>
               /\ newHeaders[r] = cleanHeaders(upstream[r].headers)
               /\ branch[r] = classify(UpstreamContentType(r)))
  /\ [][\E r \in ConcSlots : \A s \in ConcSlots \ {r} : SlotState(s)' = SlotState(s)]_vars

\* C20 witness: the call in slot 1 has returned an HTML response rewritten against
\* its own origin https://e.com while the call in slot 2, for the origin
\* http://e.com:8080, is between its fetch and its return.
C20_Witness ==
  /\ pc[1] = "done" /\ branch[1] = "html" /\ thrown[1] = <<>>
  /\ baseUrl[1] = <<"h", "t", "t", "p", "s", ":", "/", "/", "e", ".", "c", "o", "m">>
  /\ responses[1] = <<OwnResponse(1)>>
  /\ includes(responses[1][1].body, <<"h", "t", "t", "p", "s", "%", "3", "A", "%", "2", "F", "%", "2", "F", "e", ".", "c", "o", "m", "%", "2", "F", "a", ".", "p", "n", "g">>)
  /\ pc[2] = "reading"
  /\ baseUrl[2] = <<"h", "t", "t", "p", ":", "/", "/", "e", ".", "c", "o", "m", ":", "8", "0", "8", "0">>

(***************************************************************************)
(* A hanging upstream (checked under SpecLive)                             *)
(***************************************************************************)
\* C21: an upstream fetch that never completes holds only its own request, which
\* never receives a response (there is no timeout): the call stays suspended
\* without response or fault; and every other request whose own fetch completed or
\* failed has received, or eventually receives, its one response.
C21_HangHoldsOnlyItsRequest ==
  /\ [](\A r \in ConcSlots : pc[r] = "hung" => (responses[r] = <<>> /\ faults[r] = <<>>))
  /\ [][\A r \in ConcSlots : pc[r] = "hung" => pc'[r] = "hung"]_vars
  /\ \A r \in ConcSlots : \A s \in ConcSlots \ {r} :
       (pc[r] = "hung" /\ (GotUpstream(s) \/ thrown[s] # <<>>)) ~> (Done(s) /\ Len(responses[s]) = 1)

\* C21 witness: the fetch of slot 1 hangs, and slot 2, whose fetch completed with
\* an HTML body after that, has its response.
C21_Witness ==
  /\ pc[1] = "hung" /\ responses[1] = <<>>
  /\ Done(2) /\ GotUpstream(2) /\ branch[2] = "html" /\ thrown[2] = <<>>
  /\ Len(responses[2]) = 1 /\ responses[2][1].status = 200

(***************************************************************************)
(* Fetches per request (checked under Spec)                                *)
(***************************************************************************)
\* C22: at most one upstream fetch is issued per inbound request and none is
\* retried: a fetch is issued only by the handler's entry, for a request that has
\* none yet; after a fetch failure the request ends with the 500 response and the
\* one fetch, and after a successful fetch no further fetch follows.
C22_AtMostOneFetch ==
  /\ [](\A r \in Slots :
          /\ Len(fetches[r]) <= 1
          /\ (Done(r) /\ thrown[r] # <<>> /\ thrown[r][1] \in FetchErrorMessages) =>
               (Len(fetches[r]) = 1 /\ responses[r] = <<ProxyError(thrown[r][1])>>)
          /\ GotUpstream(r) => Len(fetches[r]) = 1)
  /\ [][\A r \in Slots : fetches'[r] # fetches[r] =>
          (pc[r] = "idle" /\ fetches[r] = <<>> /\ Len(fetches'[r]) = 1)]_vars

\* C22 witness: the one fetch of a request failed and the request ended with the
\* 500 response that carries the failure's message.
C22_Witness ==
  \E r \in Slots :
    /\ Done(r) /\ Len(fetches[r]) = 1
    /\ thrown[r] = <<<<"n", "e", "t", "w", "o", "r", "k", " ", "f", "a", "i", "l", "u", "r", "e">>>>
    /\ responses[r] = <<ProxyError(<<"n", "e", "t", "w", "o", "r", "k", " ", "f", "a", "i", "l", "u", "r", "e">>)>>

(***************************************************************************)
(* The base origin (checked under SpecConc)                                *)
(***************************************************************************)
\* scheme://host[:port] of an absolute http(s) URL: its scheme and its authority,
\* in lower case, without path, query and fragment.
OriginOf(target) ==
  LET colon == indexOf(target, <<":", "/", "/">>)
      rest == SubSeq(target, colon + 3, Len(target))
      authority == SubSeq(rest, 1, RunLen(rest, 1, {"/", "?", "#"}))
  IN toLowerCase(SubSeq(target, 1, colon - 1)) \o <<":", "/", "/">> \o toLowerCase(authority)

Rewrote(r) == Done(r) /\ GotUpstream(r) /\ thrown[r] = <<>> /\ branch[r] \in {"html", "css"}

\* C23: the base origin a request's document is rewritten against is
\* scheme://host[:port] of that request's own target URL, computed for each
\* request; path, query and fragment of the target play no part, so two requests
\* for targets on one origin that fetch the same document get the same body.
C23_BaseIsOriginOfTarget ==
  \A r \in ConcSlots :
    /\ (pc[r] \in {"fetching", "reading"} \/ GotUpstream(r)) => baseUrl[r] = OriginOf(UrlParam(r))
    /\ Rewrote(r) =>
         responses[r][1].body = rewritten(branch[r], textOf(upstream[r]), OriginOf(UrlParam(r)))
    /\ \A s \in ConcSlots :
         (Rewrote(r) /\ Rewrote(s) /\ OriginOf(UrlParam(r)) = OriginOf(UrlParam(s))
          /\ upstream[r] = upstream[s]) =>
           responses[r][1].body = responses[s][1].body

\* C23 witness: the targets https://e.com/a?b=1 and https://e.com/dir/p.html?q=2#f
\* answered with the same HTML document, and both responses carry the same body,
\* rewritten against https://e.com.
C23_Witness ==
  /\ Rewrote(1) /\ Rewrote(2)
  /\ UrlParam(1) = <<"h", "t", "t", "p", "s", ":", "/", "/", "e", ".", "c", "o", "m", "/", "a", "?", "b", "=", "1">>
  /\ UrlParam(2) = <<"h", "t", "t", "p", "s", ":", "/", "/", "e", ".", "c", "o", "m", "/", "d", "i", "r", "/", "p", ".", "h", "t", "m", "l", "?", "q", "=", "2", "#", "f">>
  /\ upstream[1] = upstream[2]
  /\ responses[1][1].body = responses[2][1].body
  /\ includes(responses[1][1].body, <<"u", "r", "l", "=", "h", "t", "t", "p", "s", "%", "3", "A", "%", "2", "F", "%", "2", "F", "e", ".", "c", "o", "m", "%", "2", "F", "a", ".", "p", "n", "g">>)


(***************************************************************************)
(* Properties of the front end (checked under SpecTV and SpecTVLive)       *)
(***************************************************************************)
\* The project has neither an icon preview nor a screenshot: it is previewed live.
PreviewedLive(project) == ~project.useIcon /\ project.screenshot = Null

\* C24: once the display was updated, for a current project that has neither
\* useIcon nor a screenshot the src of the preview iframe is the URL the worker's
\* proxyUrl builds for project.url (same proxy base, same encoding, whatever the
\* base origin), and the worker decodes exactly project.url from its url parameter.
C24_PreviewIsWorkerProxyUrl ==
  LET project == getProject(currentChannel)
  IN (previewFrame # <<>> /\ PreviewedLive(project)) =>
       /\ \A base \in Bases : previewFrame = proxyUrl(project.url, base)
       /\ previewFrame = PROXY_URL \o <<"/", "?", "u", "r", "l", "=">> \o encodeURIComponent(project.url)
       /\ searchParamsGet(searchOf(previewFrame), <<"u", "r", "l">>) = project.url

\* C24 witness: the TV is on and shows channel 3, whose preview iframe points at
\* the proxy with the percent-encoded URL of the clickbait-hider repository.
C24_Witness ==
  /\ isOn
  /\ currentChannel = 3
  /\ previewFrame = <<"h", "t", "t", "p", "s", ":", "/", "/", "t", "v", "-", "p", "r", "o", "x", "y", ".", "s", "h", "a", "r", "i", "f", "l", "i", "i", ".", "w", "o", "r", "k", "e", "r", "s", ".", "d", "e", "v", "/", "?", "u", "r", "l", "=", "h", "t", "t", "p", "s", "%", "3", "A", "%", "2", "F", "%", "2", "F", "g", "i", "t", "h", "u", "b", ".", "c", "o", "m", "%", "2", "F", "s", "h", "a", "r", "i", "f", "l", "i", "4", "%", "2", "F", "c", "l", "i", "c", "k", "b", "a", "i", "t", "-", "h", "i", "d", "e", "r">>
  /\ searchParamsGet(searchOf(previewFrame), <<"u", "r", "l">>) = <<"h", "t", "t", "p", "s", ":", "/", "/", "g", "i", "t", "h", "u", "b", ".", "c", "o", "m", "/", "s", "h", "a", "r", "i", "f", "l", "i", "4", "/", "c", "l", "i", "c", "k", "b", "a", "i", "t", "-", "h", "i", "d", "e", "r">>

\* The latest press reached togglePower while no transition was in progress.
PressAccepted ==
  /\ press.by # "none"
  /\ press.tagName \notin {"INPUT", "TEXTAREA"}
  /\ ~press.isTransitioning

\* C25 as stated: every press of the power button or of the Space key toggles the
\* TV: isOn eventually becomes the negation of the value it had at the press.
C25_AsStated ==
  \A v \in BOOLEAN :
    (press.by # "none" /\ ~press.toggled /\ press.isOn = v) ~> (isOn # v)

\* C25 amended: a press of the power button, or of the Space key outside an input
\* or textarea, that is made while no transition is in progress toggles the TV:
\* isOn eventually becomes the negation of the value it had at the press.  A press
\* made while isTransitioning is true is dropped and changes nothing.
C25_IdlePressToggles ==
  /\ \A v \in BOOLEAN :
       (PressAccepted /\ ~press.toggled /\ press.isOn = v) ~> (isOn # v)
  /\ [][((PowerButtonClick \/ KeyDown) /\ isTransitioning) =>
          UNCHANGED <<isOn, isTransitioning, currentChannel, channelKnob, previewFrame, running>>]_vars

\* C25 witness: Space was pressed while the TV was on and at rest, and the TV has
\* since powered off.
C25_Witness ==
  /\ press.by = "space"
  /\ PressAccepted
  /\ press.isOn
  /\ press.toggled
  /\ ~isOn
  /\ running = <<>>

\* n successive next steps from channel c.
RECURSIVE NextTimes(_, _)
NextTimes(n, c) == IF n = 0 THEN c ELSE NextTimes(n - 1, getNextChannel(c))

\* The channel a call of setChannel that has just been suspended will switch to.
Target == running'[Len(running')].channel

\* The channel count N: the number of projects.
ChannelCount == Len(PROJECTS)

\* C26: channel stepping wraps around.  With N the number of projects, for every
\* channel c in 1..N getNextChannel(c) is c+1 below N and 1 at N, getPrevChannel(c)
\* is c-1 above 1 and N at 1, getPrevChannel undoes getNextChannel (and the other
\* way round), and N next steps return to c; the current channel stays in 1..N,
\* and a channel-up or channel-down click that starts a channel change heads for
\* the wrapped neighbour of the current channel.
C26_ChannelsWrap ==
  /\ [](/\ currentChannel \in 1..ChannelCount
        /\ \A c \in 1..ChannelCount :
             /\ getNextChannel(c) = (IF c < ChannelCount THEN c + 1 ELSE 1)
             /\ getPrevChannel(c) = (IF c > 1 THEN c - 1 ELSE ChannelCount)
             /\ getPrevChannel(getNextChannel(c)) = c
             /\ getNextChannel(getPrevChannel(c)) = c
             /\ NextTimes(ChannelCount, c) = c
             /\ \A n \in 1..(ChannelCount - 1) : NextTimes(n, c) # c)
  /\ [][(ChannelUpClick /\ running' # running) =>
          Target = (IF currentChannel < ChannelCount THEN currentChannel + 1 ELSE 1)]_vars
  /\ [][(ChannelDownClick /\ running' # running) =>
          Target = (IF currentChannel > 1 THEN currentChannel - 1 ELSE ChannelCount)]_vars

\* C26 witness: the TV shows the last channel, 5, with the knob at 5, and a channel
\* change to channel 1 is in progress: a next step wrapped around.
C26_Witness ==
  /\ isOn
  /\ currentChannel = 5
  /\ channelKnob.value = 5
  /\ running = <<[op |-> "setChannel", at |-> "switching", channel |-> 1]>>

\* A step that requests an operation of the TV: an event handler runs, or the auto
\* power-on timer fires.
Requested ==
  \/ PowerButtonClick
  \/ KeyDown
  \/ ScreenOffClick
  \/ ChannelUpClick
  \/ ChannelDownClick
  \/ Wheel
  \/ Swipe
  \/ KnobMouseDown
  \/ KnobTurn
  \/ KnobMouseUp
  \/ KnobKeyDown
  \/ AutoPowerOn

\* C30: TV transitions are mutually exclusive.  At any time at most one call of
\* powerOn, powerOnSilent, powerOff or setChannel is in progress, and
\* isTransitioning is true exactly while one is; an operation requested while
\* isTransitioning is true returns without changing isOn, currentChannel or
\* isTransitioning and without starting or queueing anything.
C30_TransitionsExclusive ==
  /\ [](Len(running) <= 1 /\ (isTransitioning <=> running # <<>>))
  /\ [][(Requested /\ isTransitioning) =>
          UNCHANGED <<isOn, currentChannel, isTransitioning, previewFrame, running>>]_vars

\* C30 witness: the power button was pressed while a channel change was in
\* progress; the channel change is still the only operation in progress.
C30_Witness ==
  /\ press.by = "button"
  /\ press.isTransitioning
  /\ isTransitioning
  /\ Len(running) = 1
  /\ running[1].op = "setChannel"

(***************************************************************************)
(* Properties of the rewriters and of the handler, continued               *)
(***************************************************************************)
\* The places i..i+n-1 of a text.
Span(i, n) == i..(i + n - 1)

\* The text after the src/href pass, as C15 found it: every occurrence that is not
\* exempt replaced, in double quotes.
AfterSrcHref(text, base) == SrcHrefReplaced(text, base, TRUE)

\* Where, in the text after the src/href pass, the result of the occurrence at
\* place j of text stands: the occurrences before j end before j, so the result
\* starts right after the rewritten text before j.
ResultSpan(text, base, j) ==
  LET from == Len(AfterSrcHref(SubSeq(text, 1, j - 1), base)) + 1
      upto == Len(AfterSrcHref(SubSeq(text, 1, j + attrMatch(text, j, SrcHref).len - 1), base))
  IN from..upto

Srcset == {<<"s", "r", "c", "s", "e", "t">>}

\* A proxied URL wrapped a second time: the proxy's own endpoint, percent-encoded
\* as the value of a url parameter.
WrappedTwice == <<"u", "r", "l", "=">> \o encodeURIComponent(PROXY_URL \o <<"/", "?", "u", "r", "l", "=">>)

\* C27 as stated: within one rewriteHtml call every reference is wrapped by the
\* proxy at most once: no proxied URL is wrapped again; the srcset pass matches
\* nowhere inside the text the src/href pass produced or returned unchanged; the
\* src/href pass matches nowhere inside a srcset attribute; and the injected shim
\* stands in the output as written.
C27_AsStated ==
  output.by = "html" =>
    LET text == input.text
        mid == AfterSrcHref(text, input.base)
        firstPass == AttrOccurrences(text, SrcHref)
        secondPass == AttrOccurrences(mid, Srcset)
        srcsets == AttrOccurrences(text, Srcset)
    IN /\ Occurs(output.text, WrappedTwice) = {}
       /\ \A j \in firstPass : \A k \in secondPass :
            ResultSpan(text, input.base, j) \cap Span(k, attrMatch(mid, k, Srcset).len) = {}
       /\ \A j \in firstPass : \A k \in srcsets :
            Span(j, attrMatch(text, j, SrcHref).len) \cap Span(k, attrMatch(text, k, Srcset).len) = {}
       /\ (includes(text, <<"<", "h", "e", "a", "d", ">">>) \/ includes(text, <<"<", "H", "E", "A", "D", ">">>)) =>
            Cardinality(Occurs(output.text, fixScript)) = 1

\* C28: routing order of the handler.  An OPTIONS request is answered with the
\* preflight response (status 200, no body) before its url parameter is looked
\* at: whether the parameter is missing, empty, malformed or fine, there is no
\* 400, no 500, no fetch and no dispatch.  A request of any other method (GET,
\* POST, HEAD) takes the one validate-fetch-dispatch path, decided by its url
\* parameter alone: 400 without one, 500 for one that is no absolute URL, else
\* exactly one fetch of that URL and the dispatch on the upstream's Content-Type.
C28_RoutingOrder ==
  \A r \in Slots :
    Arrived(r) =>
      IF req[r].method = "OPTIONS"
      THEN /\ Done(r)
           /\ fetches[r] = <<>>
           /\ thrown[r] = <<>>
           /\ branch[r] = "none"
           /\ Len(responses[r]) = 1
           /\ responses[r][1].status = 200
           /\ responses[r][1].body = Null
      ELSE /\ NoUrlParam(r) =>
                /\ Done(r) /\ fetches[r] = <<>> /\ thrown[r] = <<>>
                /\ Len(responses[r]) = 1 /\ responses[r][1].status = 400
           /\ (~NoUrlParam(r) /\ ~parseURL(UrlParam(r)).ok) =>
                /\ Done(r) /\ fetches[r] = <<>> /\ thrown[r] # <<>>
                /\ Len(responses[r]) = 1 /\ responses[r][1].status = 500
           /\ (~NoUrlParam(r) /\ parseURL(UrlParam(r)).ok) =>
                /\ Len(fetches[r]) = 1
                /\ fetches[r][1].url = UrlParam(r)
                /\ GotUpstream(r) => branch[r] = classify(contentTypeOf(upstream[r]))

\* C28 witness: an OPTIONS request whose url parameter is the relative reference
\* /page, which a GET request is answered 500 for, got the preflight response.
C28_Witness ==
  \E r \in Slots :
    /\ Done(r)
    /\ req[r].method = "OPTIONS"
    /\ UrlParam(r) = <<"/", "p", "a", "g", "e">>
    /\ ~parseURL(UrlParam(r)).ok
    /\ responses[r][1].status = 200
    /\ fetches[r] = <<>>

\* The Content-Type value the handler tests: the upstream's header, "" without one.
TypeOf(r) ==
  LET v == HeadersGet(upstream[r].headers, <<"c", "o", "n", "t", "e", "n", "t", "-", "t", "y", "p", "e">>)
  IN IF v = Null THEN <<>> ELSE v

\* The handler returned a response built from the upstream's.
Relayed(r) == Done(r) /\ GotUpstream(r) /\ thrown[r] = <<>> /\ Len(responses[r]) = 1

\* C29: exactly one dispatch branch handles each upstream response, and the HTML
\* branch comes first: a Content-Type containing text/html, also one that contains
\* text/css as well, takes the HTML branch; one containing text/css and not
\* text/html the CSS branch; any other the passthrough.  The body returned is
\* rewriteHtml of the upstream text on the HTML branch, rewriteCss of it on the CSS
\* branch and the upstream body on the passthrough: never both rewrites.  (A
\* response with a null body status has no body to rewrite.)
C29_OneBranchHtmlFirst ==
  \A r \in Slots :
    /\ GotUpstream(r) =>
         /\ branch[r] \in {"html", "css", "passthrough"}
         /\ branch[r] = "html" <=> Occurs(TypeOf(r), <<"t", "e", "x", "t", "/", "h", "t", "m", "l">>) # {}
         /\ branch[r] = "css" <=>
              (Occurs(TypeOf(r), <<"t", "e", "x", "t", "/", "h", "t", "m", "l">>) = {} /\ Occurs(TypeOf(r), <<"t", "e", "x", "t", "/", "c", "s", "s">>) # {})
    /\ ~GotUpstream(r) => branch[r] = "none"
    /\ (Relayed(r) /\ upstream[r].status \notin NullBodyStatuses) =>
         LET text == IF upstream[r].body = Null THEN <<>> ELSE upstream[r].body
         IN responses[r][1].body =
              CASE branch[r] = "html" -> rewriteHtml(text, baseUrl[r])
                [] branch[r] = "css" -> rewriteCss(text, baseUrl[r])
                [] OTHER -> upstream[r].body

\* C29 witness: the upstream sent Content-Type text/css and Content-Type text/html
\* with a stylesheet as body; the HTML branch ran, and the response carries the
\* stylesheet with its url(/bg.png) as it was, which rewriteCss would have proxied.
C29_Witness ==
  \E r \in Slots :
    /\ Relayed(r)
    /\ TypeOf(r) = <<"t", "e", "x", "t", "/", "c", "s", "s", ",", " ", "t", "e", "x", "t", "/", "h", "t", "m", "l">>
    /\ branch[r] = "html"
    /\ upstream[r].body = <<"a", "{", "b", "a", "c", "k", "g", "r", "o", "u", "n", "d", ":", "u", "r", "l", "(", "/", "b", "g", ".", "p", "n", "g", ")", "}">>
    /\ responses[r][1].body = upstream[r].body
    /\ rewriteCss(upstream[r].body, baseUrl[r]) # upstream[r].body

(***************************************************************************)
(* Properties of the TV's transitions, of the knobs and of the static      *)
(* effect                                                                  *)
(***************************************************************************)
\* C31: every started transition finishes.  Under SpecTVLive (the timers of
\* delay, of the static burst and of the auto power-on fire), whenever
\* isTransitioning is true it is false again later; isTransitioning is true
\* exactly while a call of powerOn, powerOnSilent, powerOff or setChannel is
\* suspended, so this holds for each of them.
C31_TransitionsFinish ==
  /\ isTransitioning ~> ~isTransitioning
  /\ [](isTransitioning <=> running # <<>>)

\* The power-on and a channel change have both finished: the TV is on and idle
\* on another channel than the first, with no operation suspended.
C31_Witness ==
  /\ isOn
  /\ ~isTransitioning
  /\ running = <<>>
  /\ currentChannel # 1

\* A call of setChannel is suspended in its transition.
Switching(ops) == \E i \in DOMAIN ops : ops[i].op = "setChannel"

\* C32: currentChannel is always one of the channels 1..N; it changes only as the
\* last part of a setChannel call, to the channel that call was given, with the TV
\* on before and after; a setChannel call gets into its transition only when the
\* TV is on and idle; and no step taken while isOn is false (a click, a key, a
\* wheel event, a swipe, a knob drag or knob key, a timer) changes currentChannel.
C32_ChannelChangesOnlyInSetChannel ==
  /\ [](currentChannel \in 1..getTotalChannels)
  /\ [][currentChannel' # currentChannel =>
          /\ isOn /\ isOn'
          /\ isTransitioning /\ ~isTransitioning'
          /\ Len(running) = 1
          /\ running[1].op = "setChannel"
          /\ running[1].channel = currentChannel'
          /\ running' = <<>>]_vars
  /\ [][(Switching(running') /\ ~Switching(running)) => (isOn /\ ~isTransitioning)]_vars
  /\ [][~isOn => currentChannel' = currentChannel]_vars

\* The TV was switched to another channel and then off, and the channel knob was
\* then turned while it was off: the knob shows a channel the TV is not on.
C32_Witness ==
  /\ ~isOn
  /\ ~isTransitioning
  /\ currentChannel = 3
  /\ channelKnob.value = 2
  /\ ~channelKnob.isDragging

\* C33: the channel knob stays in step with the channel.  Whenever no transition
\* is in progress and the channel knob is not being dragged, the knob's value is
\* currentChannel.
C33_AsStated ==
  (~isTransitioning /\ ~channelKnob.isDragging) => channelKnob.value = currentChannel

\* C34: a knob's value and angle stay inside its range.  For the channel knob and
\* for the volume knob, after any sequence of setValue calls with or without
\* callback, drags and key presses: minValue <= value <= maxValue and
\* minAngle <= currentAngle <= maxAngle.
C34_KnobWithinRange ==
  LET k == knob.control
  IN /\ Options(k).minValue <= k.value
     /\ k.value <= Options(k).maxValue
     /\ Options(k).minAngle <= k.currentAngle
     /\ k.currentAngle <= Options(k).maxAngle

\* The volume knob was grabbed at 150 degrees with the value 95 (121.5 degrees)
\* and the pointer moved on through 180 degrees, which takes the wrap-around of
\* the pointer angle and leads past the end stop: the knob rests at maxAngle with
\* the value 100.
C34_Witness ==
  /\ knob.control.element = "volumeKnob"
  /\ knob.by = "updateDrag"
  /\ knob.control.startAngle = Degrees(150)
  /\ knob.control.startValue = 95
  /\ knob.control.currentAngle = Options(knob.control).maxAngle
  /\ knob.control.value = 100

\* C35: onChange is called only for a change of the value, with the new and the
\* old value, and never by setValue(v, false).  Whenever the method that ran last
\* called onChange, it called it once, it was not setValue(v, false), the first
\* argument is the knob's value now and differs from the second, and the second
\* is the value the knob had before the method ran.  So setValue(channel, false),
\* the call that re-synchronises the channel knob at the end of setChannel, never
\* reaches the callback that would call setChannel again.
C35_OnChangeOnlyOnChange ==
  /\ [](knob.called # <<>> =>
          /\ Len(knob.called) = 1
          /\ knob.by # "setValue(v, false)"
          /\ knob.called[1].value = knob.control.value
          /\ knob.called[1].oldValue # knob.called[1].value)
  /\ [][knob'.called # <<>> =>
          /\ knob'.called[1].oldValue = knob.control.value
          /\ knob'.control.value # knob.control.value]_vars
  /\ [][knob'.by = "setValue(v, false)" => knob'.called = <<>>]_vars

\* A drag of the channel knob has moved it from channel 1 to channel 2 and
\* onChange was called with (2, 1).
C35_Witness ==
  /\ knob.control.element = "channelKnob"
  /\ knob.by = "updateDrag"
  /\ knob.called = <<[value |-> 2, oldValue |-> 1]>>

\* C36: the static effect never outlives a transition.  Whenever isTransitioning
\* is false the effect is not running; while it is not running no animation
\* frame is pending and the canvas is clear, as stop() left it; and noise gets
\* onto a clear canvas only in a step during which the effect is running.
C36_StaticOnlyInTransition ==
  /\ [](~isTransitioning => ~staticEffect.isRunning)
  /\ [](~staticEffect.isRunning =>
          (staticEffect.canvas = "clear" /\ staticEffect.requested = {}))
  /\ [][(staticEffect.canvas = "clear" /\ staticEffect'.canvas = "noise") =>
          (staticEffect.isRunning /\ staticEffect'.isRunning)]_vars

\* The TV has gone through a power-on and a channel change, each with its
\* static, and is idle: the effect is stopped and the canvas is clear.
C36_Witness ==
  /\ isOn
  /\ ~isTransitioning
  /\ currentChannel = 2
  /\ ~staticEffect.isRunning
  /\ staticEffect.canvas = "clear"

====
